---- MODULE Spec2Model ----
(***************************************************************************)
(* Model of the glow-effect video pipelines (glow_effect.cpp) and of the   *)
(* TensorRT inference workers they call (trtinference.cpp).                *)
(*                                                                         *)
(* Spec      : the three video entry points, glow_effect_video,            *)
(*             glow_effect_video_graph and                                 *)
(*             glow_effect_video_single_batch_parallel, from the first     *)
(*             loop iteration to the return.                               *)
(***************************************************************************)
EXTENDS Integers, Sequences, FiniteSets, TLC

\* ------------------------------------------------------------------ bounds
MaxFrames == 17      \* longest input video, in frames
MaxFaults == 1       \* injected recoverable faults per run
MaxImages == 3       \* most images handed to one inference call
MaxStreams == 2      \* most worker threads of a single-batch call
MaxWorkerFaults == 1 \* injected faults per inference call
MaxBatch == 9        \* largest totalBatch handed to a fixed-batch call
MaxMasks == 5        \* most masks handed to the mipmap pipeline
MaxMipFaults == 1    \* injected CUDA errors per mipmap pipeline run
MaxPixels == 2       \* most pixels of a composited image
MaxCalls == 2        \* most calls of the preloaded function in one run
MaxClasses == 22     \* largest class dimension of an output tensor
MaxTensorPixels == 1 \* most pixels of an output tensor

\* ------------------------------------------------------- program constants
BatchSize == 8               \* frames per outer iteration of glow_effect_video
SubBatch == 4                \* frames per asynchronous segmentation call
NUM_PARALLEL_STREAMS == 2    \* frames per iteration of the single-batch entry
FixedBatch == 4              \* batch dimension the engine is built for
numBuffers == 3              \* slots of the triple-buffered mipmap pipeline
HarvestLag == 2              \* steps between the issue and the harvest of a mask

VARIABLES
    entry,            \* which entry point runs
    nFrames,          \* frames the video source holds
    nextFrame,        \* frames video.read() has delivered so far
    batch_count,      \* batches read so far
    original_frames,  \* std::vector<cv::Mat> original_frames
    freed_frames,     \* what the storage of original_frames held before clear()
    batch_frames,     \* std::vector<torch::Tensor> batch_frames / frame_tensors
    segFuture,        \* segFuture1, segFuture2: the asynchronous tasks
    segFutureValid,   \* segFutureValid1, segFutureValid2
    grayscale_masks,  \* masks being drained (grayscale_masks / segmentation_masks)
    frames_view,      \* what original_frames[...] reads as during the drain
    pc,               \* position of the orchestrator thread
    phase,            \* "loop": inside while; "post": after it
    sub,              \* sub-batch being drained (1 or 2)
    i,                \* index of the frame being emitted
    written,          \* frames handed to output_video.write, in order
    lastKey,          \* result of the last cv::waitKey
    quitSeen,         \* 'q' has been observed
    held,             \* resources acquired and not yet released
    faults            \* faults injected so far

\* The inference workers (SpecWorker).
VARIABLES
    fn,               \* which inference function runs
    num_images,       \* img_tensors.size() / totalBatch
    num_streams,      \* worker threads (num_streams / numThreads)
    worker,           \* per worker thread: its locals
    results,          \* results / allResults, one entry per image
    graph_usage,      \* std::vector<bool> graph_usage
    wproc,            \* "running", or "exited" after exit(EXIT_FAILURE)
    wfaults,          \* faults injected so far
    capFailed,        \* images whose graph capture failed
    mainpc,           \* position of the calling thread
    engine,           \* the ICudaEngine
    resultMutex       \* threads holding std::mutex resultMutex

\* The triple-buffered mipmap pipeline (SpecMipmap).
VARIABLES
    N,                \* resized_masks.size()
    mip_i,            \* loop variable i of triple_buffered_mipmap_pipeline
    mpc,              \* position of the thread running the pipeline
    mipmapStreams,    \* per slot: operations enqueued on the stream, oldest first
    mipmapDone,       \* per slot: the event, its last record and completion
    tripleDst,        \* per slot: which mask's filter result the buffer holds
    src_img,          \* per call of apply_mipmap_async: its pinned source buffer
    outputImages,     \* std::vector<cv::Mat> outputImages(N)
    issued,           \* per mask: the step and slot it was issued in
    mfaults           \* CUDA errors injected so far

pvars == <<entry, nFrames, nextFrame, batch_count, original_frames, freed_frames,
           batch_frames, segFuture, segFutureValid, grayscale_masks, frames_view,
           pc, phase, sub, i, written, lastKey, quitSeen, held, faults>>
wvars == <<fn, num_images, num_streams, worker, results, graph_usage, wproc,
           wfaults, capFailed, mainpc, engine, resultMutex>>
\* Compositing of one image (SpecComposite).
VARIABLES
    cpc,              \* position in glow_effect_image
    args,             \* the mask, frame, mipmap result and parameters
    dst_rgba,         \* cv::Mat dst_rgba, the overlay
    output_image,     \* cv::Mat output_image / final_result
    alpha             \* the blend weight mix_images used for each pixel

mvars == <<N, mip_i, mpc, mipmapStreams, mipmapDone, tripleDst, src_img,
           outputImages, issued, mfaults>>
\* The start of a function that obtains an engine (SpecStartup).
VARIABLES
    sfn,              \* which function starts
    spc,              \* its position
    plan,             \* the plan file: "valid", "corrupt" or "missing"
    snum_images,      \* img_tensors.size()
    sruntime,         \* the IRuntime
    sengine,          \* the ICudaEngine pointer
    scontext,         \* the IExecutionContext pointer
    nullEngineCalls   \* member functions invoked on a null engine

VARIABLES
    rpc,              \* position of the post-processing of one output tensor
    outputDims,       \* outputDims.d[1], the class dimension of the tensor
    outputTensor,     \* the scores: one sequence over the classes per pixel
    imagePost,        \* the mask the post-processing produced
    firstPost         \* the mask of the previous post-processing of the tensor

cvars == <<cpc, args, dst_rgba, output_image, alpha>>
svars == <<sfn, spc, plan, snum_images, sruntime, sengine, scontext, nullEngineCalls>>
rvars == <<rpc, outputDims, outputTensor, imagePost, firstPost>>
vars == <<pvars, wvars, mvars, cvars, svars, rvars>>

\* ------------------------------------------------------------------ values
Min(a, b) == IF a < b THEN a ELSE b

\* A frame: batch b (from 1), position i in the batch (from 0), content id
\* (the number of the source frame it is a copy of, from 1).
Frame(b, k, id) == [b |-> b, i |-> k, id |-> id]
\* An empty cv::Mat.
Empty == [b |-> 0, i |-> 0, id |-> 0]

VideoEntries == {"video", "video_graph"}
NoTask == [st |-> "none", in |-> <<>>, masks |-> <<>>]
\* The sub-batch tensor of sub-batch k: batch_frames[4(k-1) .. 4k).
SubTensor(frames, k) == SubSeq(frames, SubBatch * (k - 1) + 1, SubBatch * k)

\* ---------------------------------------------------------------- reading
\* glow_effect_video: frames of one 8-frame batch after the read phase, cnt
\* of them real; short batches are filled with copies of the last real one.
ReadBatchFrames(b, first, cnt, size) ==
    [j \in 1..size |-> IF j <= cnt THEN Frame(b, j - 1, first + j)
                                    ELSE Frame(b, j - 1, first + cnt)]

\* The tensor pushed for a frame whose GPU resize threw (a blank image is
\* uploaded in its place) or, in the single-batch entry, whose preprocessing
\* threw (a zero tensor): it no longer carries the frame's content.
BlankTensor(f) == [f EXCEPT !.id = 0 - 1]

\* Frames of the batch whose resize or preprocessing may fail in one read
\* phase: none, the first one, or the last real one (the one the padding
\* copies).
PreprocessFailures(cnt) ==
    {{}} \cup (IF faults < MaxFaults THEN {{1}, {cnt}} ELSE {})

\* batch_frames / frame_tensors after the read phase: the tensor of each real
\* frame, blank for a failed one; the padding is batch_frames.back(), i.e. the
\* tensor of the last real frame.
ReadBatchTensors_PadFromFrame(frames, cnt, failed) ==
    [j \in 1..Len(frames) |->
        IF j \in failed THEN BlankTensor(frames[j]) ELSE frames[j]]
ReadBatchTensors(frames, cnt, failed) ==
    [j \in 1..Len(frames) |->
        IF Min(j, cnt) \in failed THEN BlankTensor(frames[j]) ELSE frames[j]]

ReadBatch ==
    /\ UNCHANGED <<wvars, mvars, cvars, svars, rvars>>
    /\ pc = "read"
    /\ entry \in VideoEntries
    /\ LET cnt == Min(BatchSize, nFrames - nextFrame)
       IN  IF cnt = 0
             THEN \* first read of the iteration fails: batch_frames.empty(), break
                  /\ original_frames' = <<>>
                  /\ freed_frames' = original_frames
                  /\ batch_frames' = <<>>
                  /\ pc' = "get"
                  /\ phase' = "post"
                  /\ UNCHANGED <<nextFrame, batch_count, faults>>
             ELSE /\ original_frames' = ReadBatchFrames(batch_count + 1, nextFrame, cnt, BatchSize)
                  /\ freed_frames' = original_frames
                  /\ \E failed \in PreprocessFailures(cnt) :
                       /\ batch_frames' = ReadBatchTensors(
                              ReadBatchFrames(batch_count + 1, nextFrame, cnt, BatchSize),
                              cnt, failed)
                       /\ faults' = faults + Cardinality(failed)
                  /\ nextFrame' = nextFrame + cnt
                  /\ batch_count' = batch_count + 1
                  /\ pc' = "get"
                  /\ phase' = "loop"
    /\ sub' = 1
    /\ UNCHANGED <<entry, nFrames, segFuture, segFutureValid, grayscale_masks,
                   frames_view, i, written, lastKey, quitSeen, held>>

\* ------------------------------------------------------------- compositing
\* What one pass of the emit loop hands to the sink: mix_images returns
\* without touching output_image when an input is empty, and the caller then
\* substitutes a blank frame; otherwise the blend of the frame with the
\* overlay derived from the mask.
BlankOut == [kind |-> "blank", frame |-> Empty, mask |-> Empty]
MixImages(f, m, ready) ==
    IF f = Empty \/ ~ready THEN BlankOut
    ELSE [kind |-> "blend", frame |-> f, mask |-> m]

\* The key is tested before the write: on 'q' the frame is not written.
WrittenBeforeKey(w, rec, key) == Append(w, rec)
WrittenOnKey(w, rec, key) == IF key = "q" THEN w ELSE Append(w, rec)

\* Where control goes when the emit loop of sub-batch s ends.
AfterSubPc_LaunchEarly(ph, s) ==
    IF ph = "loop" THEN "launch" ELSE IF s = 1 THEN "get" ELSE "cleanup"
AfterSubPc(ph, s) ==
    IF s = 1 THEN "get" ELSE IF ph = "loop" THEN "launch" ELSE "cleanup"
AfterSubSub(s) == IF s = 1 THEN 2 ELSE 1

\* if (segFutureValidK) is false: the drain of sub-batch K is skipped.
DrainSkip ==
    /\ UNCHANGED <<wvars, mvars, cvars, svars, rvars>>
    /\ pc = "get"
    /\ entry \in VideoEntries
    /\ ~segFutureValid[sub]
    /\ pc' = AfterSubPc(phase, sub)
    /\ sub' = AfterSubSub(sub)
    /\ UNCHANGED <<entry, nFrames, nextFrame, batch_count, original_frames,
                   freed_frames, batch_frames, segFuture, segFutureValid,
                   grayscale_masks, frames_view, phase, i, written, lastKey,
                   quitSeen, held, faults>>

\* The frames original_frames[4(k-1)+j], j = 0..3, as the drain reads them.
\* On a vector the failed read has cleared, operator[] is out of range: the
\* destroyed elements read as empty matrices, or as what the storage held.
FramesRead(frames, freed, k) ==
    IF Len(frames) >= SubBatch * k
      THEN {SubTensor(frames, k)}
      ELSE {[j \in 1..SubBatch |-> Empty]} \cup
           (IF Len(freed) >= SubBatch * k THEN {SubTensor(freed, k)} ELSE {})

\* segFutureK.get() and the passes over the masks that precede the emit loop.
\* Inside the while loop the valid flag is reset; after it, it is not.
ValidAfterGet(ph, valid, k) ==
    IF ph = "loop" THEN [valid EXCEPT ![k] = FALSE] ELSE valid

DrainGet ==
    /\ UNCHANGED <<wvars, mvars, cvars, svars, rvars>>
    /\ pc = "get"
    /\ entry \in VideoEntries
    /\ segFutureValid[sub]
    /\ segFuture[sub].st = "done"
    /\ grayscale_masks' = segFuture[sub].masks
    /\ segFuture' = [segFuture EXCEPT ![sub] = NoTask]
    /\ segFutureValid' = ValidAfterGet(phase, segFutureValid, sub)
    /\ \/ /\ frames_view' \in FramesRead(original_frames, freed_frames, sub)
          /\ pc' = "emit"
       \/ \* the out-of-range access faults
          /\ Len(original_frames) < SubBatch * sub
          /\ frames_view' = <<>>
          /\ pc' = "crashed"
    /\ i' = 0
    /\ UNCHANGED <<entry, nFrames, nextFrame, batch_count, original_frames,
                   freed_frames, batch_frames, phase, sub, written, lastKey,
                   quitSeen, held, faults>>

\* One pass of the emit loop: blend, show, test the key, write.
Emit ==
    /\ UNCHANGED <<wvars, mvars, cvars, svars, rvars>>
    /\ pc = "emit"
    /\ entry \in VideoEntries
    /\ i < SubBatch
    /\ \E ready \in BOOLEAN, key \in {"q", "other"} :
         /\ ready \/ faults < MaxFaults
         /\ faults' = IF ready THEN faults ELSE faults + 1
         /\ lastKey' = key
         /\ written' = WrittenOnKey(written,
                          MixImages(frames_view[i + 1], grayscale_masks[i + 1], ready), key)
         /\ IF key = "q"
              THEN \* video.release(); destroyAllWindows(); goto cleanup
                   /\ quitSeen' = TRUE
                   /\ held' = held \ {"video", "window"}
                   /\ pc' = "cleanup"
                   /\ UNCHANGED <<i, sub>>
              ELSE /\ held' = held \cup {"window"}
                   /\ i' = i + 1
                   /\ pc' = IF i + 1 = SubBatch THEN AfterSubPc(phase, sub) ELSE "emit"
                   /\ sub' = IF i + 1 = SubBatch THEN AfterSubSub(sub) ELSE sub
                   /\ UNCHANGED quitSeen
    /\ UNCHANGED <<entry, nFrames, nextFrame, batch_count, original_frames,
                   freed_frames, batch_frames, segFuture, segFutureValid,
                   grayscale_masks, frames_view, phase>>

\* std::async of the segmentation of both sub-batches of the batch just read.
Launch ==
    /\ UNCHANGED <<wvars, mvars, cvars, svars, rvars>>
    /\ pc = "launch"
    /\ entry \in VideoEntries
    /\ segFuture' = [k \in 1..2 |->
                       [st |-> "running", in |-> SubTensor(batch_frames, k), masks |-> <<>>]]
    /\ segFutureValid' = [k \in 1..2 |-> TRUE]
    /\ pc' = "read"
    /\ UNCHANGED <<entry, nFrames, nextFrame, batch_count, original_frames,
                   freed_frames, batch_frames, grayscale_masks, frames_view,
                   phase, sub, i, written, lastKey, quitSeen, held, faults>>

\* What measure_segmentation_trt_performance_mul_concurrent(_graph) returns
\* for a 4-frame tensor: 2 threads of 2 images each; a thread whose context
\* could not be created returns early and leaves its entries empty.
SegmentationResult(in, ctxFailed) ==
    [j \in 1..Len(in) |-> IF ((j - 1) \div 2) \in ctxFailed THEN Empty ELSE in[j]]

SegTaskFinish(k) ==
    /\ UNCHANGED <<wvars, mvars, cvars, svars, rvars>>
    /\ pc \notin {"exited", "crashed", "done"}
    /\ segFuture[k].st = "running"
    /\ \E ctxFailed \in SUBSET {0, 1} :
         /\ faults + Cardinality(ctxFailed) <= MaxFaults
         /\ faults' = faults + Cardinality(ctxFailed)
         /\ segFuture' = [segFuture EXCEPT
                            ![k] = [st |-> "done", in |-> segFuture[k].in,
                                    masks |-> SegmentationResult(segFuture[k].in, ctxFailed)]]
    /\ UNCHANGED <<entry, nFrames, nextFrame, batch_count, original_frames,
                   freed_frames, batch_frames, segFutureValid, grayscale_masks,
                   frames_view, pc, phase, sub, i, written, lastKey, quitSeen, held>>

\* exit(EXIT_FAILURE) inside the task: the whole process ends.
SegTaskExit(k) ==
    /\ UNCHANGED <<wvars, mvars, cvars, svars, rvars>>
    /\ pc \notin {"exited", "crashed", "done"}
    /\ segFuture[k].st = "running"
    /\ pc' = "exited"
    /\ UNCHANGED <<entry, nFrames, nextFrame, batch_count, original_frames,
                   freed_frames, batch_frames, segFuture, segFutureValid,
                   grayscale_masks, frames_view, phase, sub, i, written,
                   lastKey, quitSeen, held, faults>>

\* cleanup: video.release(); output_video.release(); destroyAllWindows().
CleanupReleases_NoSink == {"video", "window"}
CleanupReleases == {"video", "output_video", "window"}
Cleanup ==
    /\ UNCHANGED <<wvars, mvars, cvars, svars, rvars>>
    /\ pc = "cleanup"
    /\ entry \in VideoEntries
    /\ held' = held \ CleanupReleases
    /\ pc' = "return"
    /\ UNCHANGED <<entry, nFrames, nextFrame, batch_count, original_frames,
                   freed_frames, batch_frames, segFuture, segFutureValid,
                   grayscale_masks, frames_view, phase, sub, i, written,
                   lastKey, quitSeen, faults>>

\* The function returns: the destructor of a future obtained from std::async
\* blocks until its task has finished.
ReturnReady(fut) == \A k \in 1..2 : fut[k].st # "running"
Return ==
    /\ UNCHANGED <<wvars, mvars, cvars, svars, rvars>>
    /\ pc = "return"
    /\ ReturnReady(segFuture)
    /\ pc' = "done"
    /\ UNCHANGED <<entry, nFrames, nextFrame, batch_count, original_frames,
                   freed_frames, batch_frames, segFuture, segFutureValid,
                   grayscale_masks, frames_view, phase, sub, i, written,
                   lastKey, quitSeen, held, faults>>

\* ------------------------------------- glow_effect_video_single_batch_parallel
\* Read phase of one iteration: 2 frames; a failed first read ends the loop, a
\* failed second read duplicates the first frame.
ReadBatchSingle ==
    /\ UNCHANGED <<wvars, mvars, cvars, svars, rvars>>
    /\ pc = "read"
    /\ entry = "single"
    /\ batch_count' = batch_count + 1
    /\ freed_frames' = original_frames
    /\ LET cnt == Min(NUM_PARALLEL_STREAMS, nFrames - nextFrame)
       IN  IF cnt = 0
             THEN \* processing = false; break
                  /\ original_frames' = <<>>
                  /\ batch_frames' = <<>>
                  /\ pc' = "cleanup"
                  /\ UNCHANGED <<nextFrame, faults>>
             ELSE /\ original_frames' = ReadBatchFrames(batch_count + 1, nextFrame, cnt,
                                                        NUM_PARALLEL_STREAMS)
                  /\ \E failed \in PreprocessFailures(cnt) :
                       /\ batch_frames' = ReadBatchTensors(
                              ReadBatchFrames(batch_count + 1, nextFrame, cnt,
                                              NUM_PARALLEL_STREAMS),
                              cnt, failed)
                       /\ faults' = faults + Cardinality(failed)
                  /\ nextFrame' = nextFrame + cnt
                  /\ pc' = "infer"
    /\ UNCHANGED <<entry, nFrames, segFuture, segFutureValid, grayscale_masks,
                   frames_view, phase, sub, i, written, lastKey, quitSeen, held>>

\* What the preloaded single-batch inference hands back for the tensors:
\* one mask per tensor, empty for an image its worker skipped; when the call
\* throws, the caller substitutes a blank mask for every tensor.
SingleBatchResult(tensors, skipped, throws) ==
    [j \in 1..Len(tensors) |-> IF throws \/ j \in skipped THEN Empty ELSE tensors[j]]

\* The synchronous inference call and the passes over the masks that precede
\* the emit loop (resize, glow_blow, triple-buffered mipmap).
InferSingle ==
    /\ UNCHANGED <<wvars, mvars, cvars, svars, rvars>>
    /\ pc = "infer"
    /\ entry = "single"
    /\ \E skipped \in SUBSET (1..Len(batch_frames)), throws \in BOOLEAN :
         LET n == Cardinality(skipped) + (IF throws THEN 1 ELSE 0)
         IN  /\ faults + n <= MaxFaults
             /\ faults' = faults + n
             /\ grayscale_masks' = SingleBatchResult(batch_frames, skipped, throws)
    /\ frames_view' = original_frames
    /\ i' = 0
    /\ pc' = "emit"
    /\ UNCHANGED <<entry, nFrames, nextFrame, batch_count, original_frames,
                   freed_frames, batch_frames, segFuture, segFutureValid, phase,
                   sub, written, lastKey, quitSeen, held>>

\* The first pass over the masks: an empty mask is replaced by a blank mask of
\* the frame's size, any other mask is resized to it.
BlankMask == [b |-> 0, i |-> 0, id |-> 0 - 1]
ResizedMask_Unchecked(m) == m
ResizedMask(m) == IF m = Empty THEN BlankMask ELSE m

\* One pass of the final compositing loop. An exception inside the try block
\* is caught: a blank frame is written and the key read there is discarded.
EmitSingle ==
    /\ UNCHANGED <<wvars, mvars, cvars, svars, rvars>>
    /\ pc = "emit"
    /\ entry = "single"
    /\ i < Len(original_frames)
    /\ \E ready \in BOOLEAN, throws \in BOOLEAN, key \in {"q", "other"} :
         LET n == (IF ready THEN 0 ELSE 1) + (IF throws THEN 1 ELSE 0)
         IN  /\ faults + n <= MaxFaults
             /\ faults' = faults + n
             /\ IF throws
                  THEN /\ written' = Append(written, BlankOut)
                       /\ lastKey' = "ignored"
                       /\ i' = i + 1
                       /\ pc' = IF i + 1 = Len(original_frames) THEN "read" ELSE "emit"
                       /\ UNCHANGED quitSeen
                  ELSE /\ lastKey' = key
                       /\ written' = WrittenOnKey(written,
                              MixImages(frames_view[i + 1],
                                        ResizedMask(grayscale_masks[i + 1]), ready), key)
                       /\ IF key = "q"
                            THEN \* processing = false; break
                                 /\ quitSeen' = TRUE
                                 /\ pc' = "cleanup"
                                 /\ UNCHANGED i
                            ELSE /\ i' = i + 1
                                 /\ pc' = IF i + 1 = Len(original_frames) THEN "read" ELSE "emit"
                                 /\ UNCHANGED quitSeen
    /\ UNCHANGED <<entry, nFrames, nextFrame, batch_count, original_frames,
                   freed_frames, batch_frames, segFuture, segFutureValid,
                   grayscale_masks, frames_view, phase, sub, held>>

\* After the loop: the triple-buffer memory, streams and events, the engine
\* and the runtime, the video source, the sink and the window are released.
SingleReleases == {"tripleSrc", "tripleDst", "mipmapStreams", "mipmapDone",
                   "engine", "runtime", "video", "output_video", "window"}
CleanupSingle ==
    /\ UNCHANGED <<wvars, mvars, cvars, svars, rvars>>
    /\ pc = "cleanup"
    /\ entry = "single"
    /\ held' = held \ SingleReleases
    /\ pc' = "return"
    /\ UNCHANGED <<entry, nFrames, nextFrame, batch_count, original_frames,
                   freed_frames, batch_frames, segFuture, segFutureValid,
                   grayscale_masks, frames_view, phase, sub, i, written,
                   lastKey, quitSeen, faults>>

\* ------------------------------------------------------------ specification
\* No inference function is being followed.
WorkerIdle ==
    /\ fn = "none"
    /\ num_images = 0
    /\ num_streams = 0
    /\ worker = <<>>
    /\ results = <<>>
    /\ graph_usage = <<>>
    /\ wproc = "running"
    /\ wfaults = 0
    /\ capFailed = {}
    /\ mainpc = "idle"
    /\ engine = "none"
    /\ resultMutex = {}

\* No function start is being followed.
StartupIdle ==
    /\ sfn = "none"
    /\ spc = "idle"
    /\ plan = "none"
    /\ snum_images = 0
    /\ sruntime = "none"
    /\ sengine = "none"
    /\ scontext = "none"
    /\ nullEngineCalls = {}

\* No output tensor is being post-processed.
ReduceIdle ==
    /\ rpc = "idle"
    /\ outputDims = 0
    /\ outputTensor = <<>>
    /\ imagePost = <<>>
    /\ firstPost = <<>>

\* No image is being composited.
CompositeIdle ==
    /\ cpc = "idle"
    /\ args = <<>>
    /\ dst_rgba = <<>>
    /\ output_image = <<>>
    /\ alpha = <<>>

\* No mipmap pipeline is being followed.
MipmapIdle ==
    /\ N = 0
    /\ mip_i = 0
    /\ mpc = "idle"
    /\ mipmapStreams = <<>>
    /\ mipmapDone = <<>>
    /\ tripleDst = <<>>
    /\ src_img = <<>>
    /\ outputImages = <<>>
    /\ issued = <<>>
    /\ mfaults = 0

\* The state on entry to the processing loop: source and sink are open; the
\* single-batch entry also holds the engine, the runtime, its window and the
\* triple-buffer allocations.
HeldAtLoopEntry(e) ==
    IF e = "single"
      THEN {"video", "output_video", "engine", "runtime", "window",
            "tripleSrc", "tripleDst", "mipmapStreams", "mipmapDone"}
      ELSE {"video", "output_video"}

Init ==
    /\ entry \in {"video", "video_graph", "single"}
    /\ nFrames \in 0..MaxFrames
    /\ nextFrame = 0
    /\ batch_count = 0
    /\ original_frames = <<>>
    /\ freed_frames = <<>>
    /\ batch_frames = <<>>
    /\ segFuture = [k \in 1..2 |-> NoTask]
    /\ segFutureValid = [k \in 1..2 |-> FALSE]
    /\ grayscale_masks = <<>>
    /\ frames_view = <<>>
    /\ pc = "read"
    /\ phase = "loop"
    /\ sub = 1
    /\ i = 0
    /\ written = <<>>
    /\ lastKey = "none"
    /\ quitSeen = FALSE
    /\ held = HeldAtLoopEntry(entry)
    /\ faults = 0
    /\ WorkerIdle
    /\ MipmapIdle
    /\ CompositeIdle
    /\ StartupIdle
    /\ ReduceIdle

Next ==
    \/ ReadBatch
    \/ DrainSkip
    \/ DrainGet
    \/ Emit
    \/ Launch
    \/ \E k \in 1..2 : SegTaskFinish(k)
    \/ \E k \in 1..2 : SegTaskExit(k)
    \/ Cleanup
    \/ Return
    \/ ReadBatchSingle
    \/ InferSingle
    \/ EmitSingle
    \/ CleanupSingle

Spec == Init /\ [][Next]_vars

\* ====================================================== inference workers
\* measure_segmentation_trt_performance_single_batch_parallel and its
\* _preloaded twin (one worker thread per stream, one image at a time), and
\* measure_segmentation_trt_performance_mul_concurrent_graph (2 threads, one
\* padded sub-batch each).
SingleFns == {"single_batch_parallel", "single_batch_parallel_preloaded"}
GraphFn == "mul_concurrent_graph"
MulFn == "mul_concurrent"
FixedBatchFns == {MulFn, GraphFn}
Workers == 0..(num_streams - 1)
Images == 0..(num_images - 1)

\* Ceiling division of the images over the workers, and worker t's range.
ImagesPerThread_Floor(n, w) == n \div w
ImagesPerThread(n, w) == (n + w - 1) \div w
StartIdx(t) == t * ImagesPerThread(num_images, num_streams)
EndIdx(t) == Min(StartIdx(t) + ImagesPerThread(num_images, num_streams), num_images)

\* Device and pinned buffers, named by the local that holds them and the
\* image (single-batch workers) or first image of the sub-batch they were
\* allocated for.
Buf(name, img) == [name |-> name, img |-> img]
NoBuf == Buf("none", 0)
ImageBuffers(img) ==
    {Buf(n, img) : n \in {"h_input", "d_input", "h_output", "d_output", "d_argmax_output"}}
\* A captured graph holds the addresses the argmax kernel was recorded with.
GraphOver(img) == [out |-> Buf("d_output", img), argmax |-> Buf("d_argmax_output", img)]
NoGraph == [out |-> NoBuf, argmax |-> NoBuf]
GraphRefs(g) == {g.out, g.argmax}

\* Masks: the argmax of the output tensor of image img, an empty cv::Mat, or
\* whatever an uninitialised buffer holds.
ArgmaxMask(img) == [kind |-> "argmax", of |-> img]
GarbageMask(img) == [kind |-> "garbage", of |-> img]
EmptyMat == [kind |-> "empty", of |-> 0]

NewWorker ==
    [pc |-> "start", img_idx |-> 0, context |-> "none", streams |-> "none",
     postGraphCaptured |-> FALSE, postprocessGraph |-> NoGraph,
     postprocessGraphExec |-> NoGraph, live |-> {}, postMode |-> "none",
     d_argmax_output |-> EmptyMat, subTensor |-> <<>>, localResults |-> <<>>,
     enqueueFailed |-> FALSE, failPoint |-> "none", failImg |-> 0,
     freedOnFail |-> <<>>, racedWith |-> {}]

\* A fault may be injected while the budget lasts.
MayFail(ok) == ok \/ wfaults < MaxWorkerFaults
FaultsAfter(ok) == IF ok THEN wfaults ELSE wfaults + 1

\* `continue` / end of the loop body: the next image, or the code after the loop.
NextImagePc(t, img) == IF img + 1 < EndIdx(t) THEN "alloc" ELSE "epilogue"

\* Thread entry: createExecutionContext returns null (the thread returns), or
\* a stream creation under checkCudaErrors fails (the process exits).
StartOutcomes == {"ok", "no_context", "stream_error"}

\* Thread entry of a single-batch worker: range, context, streams.
WStart(t) ==
    /\ fn \in SingleFns
    /\ wproc = "running"
    /\ worker[t].pc = "start"
    /\ UNCHANGED <<rvars, svars, cvars, mvars, pvars, fn, num_images, num_streams, results, graph_usage,
                   capFailed, mainpc, engine, resultMutex>>
    /\ IF StartIdx(t) >= num_images
         THEN \* no images for this worker
              /\ worker' = [worker EXCEPT ![t].pc = "finished"]
              /\ UNCHANGED <<wfaults, wproc>>
         ELSE \E outcome \in StartOutcomes :
                /\ MayFail(outcome = "ok")
                /\ wfaults' = FaultsAfter(outcome = "ok")
                /\ wproc' = IF outcome = "stream_error" THEN "exited" ELSE wproc
                /\ worker' = [worker EXCEPT ![t] =
                      IF outcome = "ok"
                        THEN [@ EXCEPT !.pc = "alloc", !.img_idx = StartIdx(t),
                                       !.context = "live", !.streams = "live"]
                      ELSE IF outcome = "no_context"
                        THEN [@ EXCEPT !.pc = "finished"]
                      ELSE [@ EXCEPT !.context = "live"]]

\* The steps of the per-image set-up that can fail, in program order: the
\* binding dimensions, the pinned and the device input, the copy of the input,
\* the pinned and the device output of the output binding, the argmax buffer.
FailPoints == <<"dims", "h_input", "d_input", "copy_input", "h_output", "d_output",
                "d_argmax_output">>

\* The buffers the image holds when the step fails.
AllocatedBefore(point) ==
    CASE point \in {"dims", "h_input"} -> {}
      [] point = "d_input" -> {"h_input"}
      [] point \in {"copy_input", "h_output"} -> {"h_input", "d_input"}
      [] point = "d_output" -> {"h_input", "d_input", "h_output"}
      [] point = "d_argmax_output" -> {"h_input", "d_input", "h_output", "d_output"}

\* The cudaFree / cudaFreeHost calls of the failure branch of the step, in
\* the order the code makes them.
ReleasedOn_OutputKept(point) ==
    CASE point \in {"dims", "h_input"} -> <<>>
      [] point = "d_input" -> <<"h_input">>
      [] point \in {"copy_input", "h_output"} -> <<"d_input", "h_input">>
      [] point = "d_output" -> <<"d_input", "h_input">>
      [] point = "d_argmax_output" -> <<"h_output", "d_output", "d_input", "h_input">>
ReleasedOn(point) ==
    CASE point \in {"dims", "h_input"} -> <<>>
      [] point = "d_input" -> <<"h_input">>
      [] point \in {"copy_input", "h_output"} -> <<"d_input", "h_input">>
      [] point = "d_output" -> <<"h_output", "d_input", "h_input">>
      [] point = "d_argmax_output" -> <<"h_output", "d_output", "d_input", "h_input">>

\* What stays allocated for the image after the failure branch has run.
LeftAllocated(point, img) ==
    {Buf(n, img) : n \in AllocatedBefore(point) \
                          {ReleasedOn(point)[j] : j \in 1..Len(ReleasedOn(point))}}

\* Binding dimensions and every allocation of one image. A failure releases
\* what the image had obtained so far and skips the image.
WAlloc(t) ==
    /\ fn \in SingleFns
    /\ wproc = "running"
    /\ worker[t].pc = "alloc"
    /\ UNCHANGED <<rvars, svars, cvars, mvars, pvars, fn, num_images, num_streams, results, graph_usage,
                   wproc, capFailed, mainpc, engine, resultMutex>>
    /\ \/ /\ wfaults' = wfaults
          /\ worker' = [worker EXCEPT ![t] =
                [@ EXCEPT !.pc = "enqueue", !.enqueueFailed = FALSE,
                          !.live = @ \cup ImageBuffers(worker[t].img_idx),
                          !.failPoint = "none", !.failImg = 0, !.freedOnFail = <<>>]]
       \/ \E j \in 1..Len(FailPoints) :
          /\ MayFail(FALSE)
          /\ wfaults' = FaultsAfter(FALSE)
          /\ worker' = [worker EXCEPT ![t] =
                [@ EXCEPT !.pc = NextImagePc(t, worker[t].img_idx),
                          !.img_idx = @ + 1,
                          !.live = @ \cup LeftAllocated(FailPoints[j], worker[t].img_idx),
                          !.failPoint = FailPoints[j],
                          !.failImg = worker[t].img_idx,
                          !.freedOnFail = ReleasedOn(FailPoints[j])]]

\* context->enqueueV2 and the wait for it. A failure frees the image's
\* buffers and skips the image; success leads to the capture attempt while
\* no graph has been captured, and straight to post-processing afterwards.
AfterEnqueuePc(captured) == IF captured THEN "post" ELSE "capture"
WEnqueue(t) ==
    /\ fn \in SingleFns
    /\ wproc = "running"
    /\ worker[t].pc = "enqueue"
    /\ UNCHANGED <<rvars, svars, cvars, mvars, pvars, fn, num_images, num_streams, results, graph_usage,
                   wproc, capFailed, mainpc, engine, resultMutex>>
    /\ \E ok \in BOOLEAN :
         /\ MayFail(ok)
         /\ wfaults' = FaultsAfter(ok)
         /\ worker' = [worker EXCEPT ![t] =
               IF ok THEN [@ EXCEPT !.pc = AfterEnqueuePc(worker[t].postGraphCaptured)]
                     ELSE [@ EXCEPT !.pc = NextImagePc(t, worker[t].img_idx),
                                    !.img_idx = @ + 1,
                                    !.enqueueFailed = TRUE,
                                    !.live = @ \ ImageBuffers(worker[t].img_idx)]]

\* The capture attempt. What the handles hold when a step of it fails, and
\* what the catch block leaves in them.
CaptureOutcomes == {"ok", "begin_failed", "end_failed", "instantiate_failed"}
PartialGraph(outcome, img) ==
    IF outcome = "instantiate_failed" THEN GraphOver(img) ELSE NoGraph
DiscardPartialGraph_Keep(g) == g
DiscardPartialGraph(g) == NoGraph

\* graph_usage[t] = true, made without resultMutex.  std::vector<bool> packs
\* its elements into words, so the assignment reads the word, sets one bit
\* and writes the word back: the bits that the threads in `raced` set since
\* this thread read the word may be lost (a data race on the word).
GraphUsageWrites(usage, t, raced) ==
    {[x \in DOMAIN usage |-> IF x = t THEN TRUE
                             ELSE IF x \in lost THEN FALSE ELSE usage[x]] :
        lost \in SUBSET raced}

WCapture(t) ==
    /\ fn \in SingleFns
    /\ wproc = "running"
    /\ worker[t].pc = "capture"
    /\ UNCHANGED <<rvars, svars, cvars, mvars, pvars, fn, num_images, num_streams, results, wproc, mainpc, engine, resultMutex>>
    /\ \E outcome \in CaptureOutcomes :
         LET img == worker[t].img_idx
             ok == outcome = "ok"
         IN  /\ MayFail(ok)
             /\ wfaults' = FaultsAfter(ok)
             /\ capFailed' = IF ok THEN capFailed ELSE capFailed \cup {img}
             /\ graph_usage' \in IF ok THEN GraphUsageWrites(graph_usage, t, worker[t].racedWith)
                                       ELSE {graph_usage}
             /\ worker' = [u \in DOMAIN worker |->
                   IF u = t
                     THEN IF ok THEN [worker[t] EXCEPT !.pc = "post",
                                        !.postGraphCaptured = TRUE,
                                        !.postprocessGraph = GraphOver(img),
                                        !.postprocessGraphExec = GraphOver(img),
                                        !.racedWith = {}]
                                ELSE [worker[t] EXCEPT !.pc = "post",
                                        !.postprocessGraph =
                                            DiscardPartialGraph(PartialGraph(outcome, img)),
                                        !.postprocessGraphExec = DiscardPartialGraph(NoGraph),
                                        !.racedWith = {}]
                   ELSE IF ok /\ worker[u].pc = "capture"
                     THEN [worker[u] EXCEPT !.racedWith = @ \cup {t}]
                   ELSE worker[u]]

\* What d_argmax_output of the current image holds after a replay: the graph
\* runs the kernel on the addresses it was captured with; when those are not
\* the current image's buffers the kernel reads and writes freed memory, and
\* the current buffer holds the mask only if the allocator handed the same
\* addresses out again.
ReplayResults(g, img, live) ==
    IF GraphRefs(g) \subseteq live /\ g = GraphOver(img)
      THEN {ArgmaxMask(img)}
      ELSE {ArgmaxMask(img), GarbageMask(img)}

\* Post-processing of one image: replay of the captured graph, or the eager
\* kernel (no graph, or the launch of the graph failed).
UseGraph(w) == w.postGraphCaptured /\ w.postprocessGraphExec # NoGraph
WPost(t) ==
    /\ fn \in SingleFns
    /\ wproc = "running"
    /\ worker[t].pc = "post"
    /\ UNCHANGED <<rvars, svars, cvars, mvars, pvars, fn, num_images, num_streams, results, graph_usage,
                   wproc, capFailed, mainpc, engine, resultMutex>>
    /\ LET w == worker[t]
       IN  IF UseGraph(w)
             THEN \E ok \in BOOLEAN :
                    /\ MayFail(ok)
                    /\ wfaults' = FaultsAfter(ok)
                    /\ IF ok
                         THEN \E m \in ReplayResults(w.postprocessGraphExec, w.img_idx, w.live) :
                                worker' = [worker EXCEPT ![t] =
                                    [@ EXCEPT !.pc = "store", !.postMode = "graph",
                                              !.d_argmax_output = m]]
                         ELSE worker' = [worker EXCEPT ![t] =
                                    [@ EXCEPT !.pc = "store", !.postMode = "graph_failed_eager",
                                              !.d_argmax_output = ArgmaxMask(w.img_idx)]]
             ELSE /\ worker' = [worker EXCEPT ![t] =
                        [@ EXCEPT !.pc = "store", !.postMode = "eager",
                                  !.d_argmax_output = ArgmaxMask(w.img_idx)]]
                  /\ UNCHANGED wfaults

\* std::lock_guard<std::mutex> lock(resultMutex): the constructor returns
\* once no other thread holds the mutex.
MutexFree_Unguarded(m) == TRUE
MutexFree(m) == m = {}
AcquireResultMutex(t) ==
    /\ fn # "none"
    /\ wproc = "running"
    /\ worker[t].pc = "lock"
    /\ MutexFree(resultMutex)
    /\ resultMutex' = resultMutex \cup {t}
    /\ worker' = [worker EXCEPT ![t].pc = "write"]
    /\ UNCHANGED <<rvars, svars, cvars, mvars, pvars, fn, num_images, num_streams, results, graph_usage,
                   wproc, wfaults, capFailed, mainpc, engine>>

\* Copy of the mask to the host; a failed copy releases the image's buffers
\* and skips the image.
WStore(t) ==
    /\ fn \in SingleFns
    /\ wproc = "running"
    /\ worker[t].pc = "store"
    /\ UNCHANGED <<rvars, svars, cvars, mvars, pvars, fn, num_images, num_streams, results, graph_usage, wproc,
                   capFailed, mainpc, engine, resultMutex>>
    /\ \E ok \in BOOLEAN :
         LET w == worker[t]
         IN  /\ MayFail(ok)
             /\ wfaults' = FaultsAfter(ok)
             /\ worker' = [worker EXCEPT ![t] =
                   IF ok THEN [@ EXCEPT !.pc = "lock"]
                         ELSE [@ EXCEPT !.pc = NextImagePc(t, w.img_idx),
                                        !.img_idx = @ + 1,
                                        !.live = @ \ ImageBuffers(w.img_idx)]]

\* results[img_idx] = result.clone() inside the lock scope, the end of the
\* scope, and the release of the image's buffers.
WWrite(t) ==
    /\ fn \in SingleFns
    /\ wproc = "running"
    /\ worker[t].pc = "write"
    /\ results' = [results EXCEPT ![worker[t].img_idx] = worker[t].d_argmax_output]
    /\ resultMutex' = resultMutex \ {t}
    /\ worker' = [worker EXCEPT ![t] =
          [@ EXCEPT !.pc = NextImagePc(t, worker[t].img_idx),
                    !.img_idx = @ + 1,
                    !.live = @ \ ImageBuffers(worker[t].img_idx)]]
    /\ UNCHANGED <<rvars, svars, cvars, mvars, pvars, fn, num_images, num_streams, graph_usage, wproc,
                   wfaults, capFailed, mainpc, engine>>

\* After the loop: statistics, then graph, streams and context are destroyed.
WEpilogue(t) ==
    /\ fn \in SingleFns
    /\ wproc = "running"
    /\ worker[t].pc = "epilogue"
    /\ worker' = [worker EXCEPT ![t] =
          [@ EXCEPT !.pc = "finished", !.postprocessGraph = NoGraph,
                    !.postprocessGraphExec = NoGraph,
                    !.streams = "destroyed", !.context = "destroyed",
                    !.failPoint = "none", !.failImg = 0, !.freedOnFail = <<>>]]
    /\ UNCHANGED <<rvars, svars, cvars, mvars, pvars, fn, num_images, num_streams, results, graph_usage,
                   wproc, wfaults, capFailed, mainpc, engine, resultMutex>>

\* The caller joins every thread; the function that deserialised the engine
\* destroys it, the preloaded one leaves it to its caller.
EngineAfterReturn_Destroyed(f) == "destroyed"
EngineAfterReturn(f) ==
    IF f = "single_batch_parallel_preloaded" THEN "live" ELSE "destroyed"
\* for (auto& t : threads) t.join(): every thread that was started.
JoinedThreads_FirstOnly == {0}
JoinedThreads == Workers
WJoin ==
    /\ fn # "none"
    /\ wproc = "running"
    /\ mainpc = "joining"
    /\ \A t \in JoinedThreads : worker[t].pc = "finished"
    /\ mainpc' = "returned"
    /\ engine' = EngineAfterReturn(fn)
    /\ UNCHANGED <<rvars, svars, cvars, mvars, pvars, fn, num_images, num_streams, worker, results,
                   graph_usage, wproc, wfaults, capFailed, resultMutex>>

\* glow_effect_video_single_batch_parallel, the caller of the preloaded
\* function: the next iteration of its loop calls the function again with the
\* engine it deserialized before the loop.
CallAgain ==
    /\ fn = "single_batch_parallel_preloaded"
    /\ wproc = "running"
    /\ mainpc = "returned"
    /\ batch_count + 1 < MaxCalls
    /\ batch_count' = batch_count + 1
    /\ worker' = [t \in Workers |-> NewWorker]
    /\ results' = [img \in Images |-> EmptyMat]
    /\ graph_usage' = [t \in Workers |-> FALSE]
    /\ capFailed' = {}
    /\ mainpc' = "joining"
    /\ UNCHANGED <<rvars, svars, cvars, mvars, fn, num_images, num_streams, wproc, wfaults,
                   engine, resultMutex>>
    /\ UNCHANGED <<entry, nFrames, nextFrame, original_frames, freed_frames,
                   batch_frames, segFuture, segFutureValid, grayscale_masks,
                   frames_view, pc, phase, sub, i, written, lastKey, quitSeen,
                   held, faults>>

\* After the loop of the caller: if (engine) engine->destroy().
CallerCleanup ==
    /\ fn = "single_batch_parallel_preloaded"
    /\ wproc = "running"
    /\ mainpc = "returned"
    /\ mainpc' = "cleaned"
    /\ engine' = IF engine = "live" THEN "destroyed" ELSE "destroyed_twice"
    /\ UNCHANGED <<rvars, svars, cvars, mvars, pvars, fn, num_images, num_streams, worker,
                   results, graph_usage, wproc, wfaults, capFailed, resultMutex>>

\* ------------------- measure_segmentation_trt_performance_mul_concurrent_graph
\* checkCudaErrors ends the process on any CUDA error code; it does not throw.
numThreads == 2
ValidCount(t) == EndIdx(t) - StartIdx(t)
SubBatchImages(t) == StartIdx(t)..(EndIdx(t) - 1)

\* The slice img_tensor_batch[startIdx, endIdx) as image indices, and the
\* sub-batch after padding: fewer than 4 images are filled up to 4 with
\* copies of the last one; 4 or more are left as they are.
SubBatchSlice(t) == [j \in 1..ValidCount(t) |-> StartIdx(t) + j - 1]
PadSubBatch(slice) ==
    IF Len(slice) < FixedBatch
      THEN [j \in 1..FixedBatch |-> IF j <= Len(slice) THEN slice[j] ELSE slice[Len(slice)]]
      ELSE slice
\* localResults: the masks of the first validCount slots of the output.
RetainedCount_Padded(t) == Len(worker[t].subTensor)
RetainedCount(t) == ValidCount(t)
LocalResults(slice, n) == [j \in 1..n |-> ArgmaxMask(slice[j])]

\* Thread entry: context, three streams, range.
GStart(t) ==
    /\ fn = GraphFn
    /\ wproc = "running"
    /\ worker[t].pc = "start"
    /\ UNCHANGED <<rvars, svars, cvars, mvars, pvars, fn, num_images, num_streams, results, graph_usage,
                   capFailed, mainpc, engine, resultMutex>>
    /\ \E outcome \in StartOutcomes :
         /\ MayFail(outcome = "ok")
         /\ wfaults' = FaultsAfter(outcome = "ok")
         /\ wproc' = IF outcome = "stream_error" THEN "exited" ELSE wproc
         /\ worker' = [worker EXCEPT ![t] =
               IF outcome = "no_context" THEN [@ EXCEPT !.pc = "finished"]
               ELSE IF outcome = "stream_error" THEN [@ EXCEPT !.context = "live"]
               ELSE IF ValidCount(t) <= 0
                      THEN \* return with the context and the streams alive
                           [@ EXCEPT !.pc = "finished", !.context = "live",
                                     !.streams = "live"]
                      ELSE [@ EXCEPT !.pc = "alloc", !.img_idx = StartIdx(t),
                                     !.context = "live", !.streams = "live"]]

\* Padding to 4 and every allocation, each under checkCudaErrors.
GAlloc(t) ==
    /\ fn = GraphFn
    /\ wproc = "running"
    /\ worker[t].pc = "alloc"
    /\ UNCHANGED <<rvars, svars, cvars, mvars, pvars, fn, num_images, num_streams, results, graph_usage,
                   capFailed, mainpc, engine, resultMutex>>
    /\ \E ok \in BOOLEAN :
         /\ MayFail(ok)
         /\ wfaults' = FaultsAfter(ok)
         /\ wproc' = IF ok THEN wproc ELSE "exited"
         /\ worker' = [worker EXCEPT ![t] =
               IF ok THEN [@ EXCEPT !.pc = "warmup",
                                    !.subTensor = PadSubBatch(SubBatchSlice(t)),
                                    !.live = @ \cup ImageBuffers(StartIdx(t))]
                     ELSE @]

\* enqueueV2 returns false, or the synchronisation after it fails under
\* checkCudaErrors.
EnqueueOutcomes == {"ok", "enqueue_failed", "sync_error"}

\* The two warm-up enqueues; a failure jumps to cleanup.
GWarmup(t) ==
    /\ fn = GraphFn
    /\ wproc = "running"
    /\ worker[t].pc = "warmup"
    /\ UNCHANGED <<rvars, svars, cvars, mvars, pvars, fn, num_images, num_streams, results, graph_usage,
                   capFailed, mainpc, engine, resultMutex>>
    /\ \E outcome \in EnqueueOutcomes :
         /\ MayFail(outcome = "ok")
         /\ wfaults' = FaultsAfter(outcome = "ok")
         /\ wproc' = IF outcome = "sync_error" THEN "exited" ELSE wproc
         /\ worker' = [worker EXCEPT ![t] =
               IF outcome = "ok" THEN [@ EXCEPT !.pc = "capture"]
               ELSE IF outcome = "enqueue_failed"
                 THEN [@ EXCEPT !.pc = "cleanup", !.enqueueFailed = TRUE]
               ELSE @]

\* The capture attempt inside try: a CUDA error code from begin, end or
\* instantiate goes through checkCudaErrors; only an exception thrown by the
\* kernel launcher reaches the catch block.
GCaptureOutcomes == {"ok", "cuda_error", "throws"}
CaptureErrorEndsProcess(outcome) == outcome = "cuda_error"
GCapture(t) ==
    /\ fn = GraphFn
    /\ wproc = "running"
    /\ worker[t].pc = "capture"
    /\ UNCHANGED <<rvars, svars, cvars, mvars, pvars, fn, num_images, num_streams, results, mainpc, engine, resultMutex>>
    /\ \E outcome \in GCaptureOutcomes :
         LET ok == outcome = "ok"
         IN  /\ MayFail(ok)
             /\ wfaults' = FaultsAfter(ok)
             /\ capFailed' = IF ok THEN capFailed ELSE capFailed \cup SubBatchImages(t)
             /\ wproc' = IF CaptureErrorEndsProcess(outcome) THEN "exited" ELSE wproc
             /\ graph_usage' = graph_usage
             /\ worker' = [worker EXCEPT ![t] =
                   IF ok THEN [@ EXCEPT !.pc = "enqueue",
                                        !.postGraphCaptured = TRUE,
                                        !.postprocessGraph = GraphOver(StartIdx(t)),
                                        !.postprocessGraphExec = GraphOver(StartIdx(t))]
                   ELSE IF CaptureErrorEndsProcess(outcome) THEN @
                   ELSE [@ EXCEPT !.pc = "enqueue",
                                  !.postprocessGraph = DiscardPartialGraph(NoGraph),
                                  !.postprocessGraphExec = DiscardPartialGraph(NoGraph)]]

\* The timed enqueue; a failure jumps to cleanup.
GEnqueue(t) ==
    /\ fn = GraphFn
    /\ wproc = "running"
    /\ worker[t].pc = "enqueue"
    /\ UNCHANGED <<rvars, svars, cvars, mvars, pvars, fn, num_images, num_streams, results, graph_usage,
                   capFailed, mainpc, engine, resultMutex>>
    /\ \E outcome \in EnqueueOutcomes :
         /\ MayFail(outcome = "ok")
         /\ wfaults' = FaultsAfter(outcome = "ok")
         /\ wproc' = IF outcome = "sync_error" THEN "exited" ELSE wproc
         /\ worker' = [worker EXCEPT ![t] =
               IF outcome = "ok" THEN [@ EXCEPT !.pc = "post"]
               ELSE IF outcome = "enqueue_failed"
                 THEN [@ EXCEPT !.pc = "cleanup", !.enqueueFailed = TRUE]
               ELSE @]

\* Post-processing of the sub-batch: graph launch under checkCudaErrors, or
\* the eager kernel.
GPost(t) ==
    /\ fn = GraphFn
    /\ wproc = "running"
    /\ worker[t].pc = "post"
    /\ UNCHANGED <<rvars, svars, cvars, mvars, pvars, fn, num_images, num_streams, results, graph_usage,
                   capFailed, mainpc, engine, resultMutex>>
    /\ LET w == worker[t]
       IN  IF UseGraph(w)
             THEN \E ok \in BOOLEAN :
                    /\ MayFail(ok)
                    /\ wfaults' = FaultsAfter(ok)
                    /\ wproc' = IF ok THEN wproc ELSE "exited"
                    /\ worker' = [worker EXCEPT ![t] =
                          IF ok THEN [@ EXCEPT !.pc = "store", !.postMode = "graph",
                                               !.d_argmax_output = ArgmaxMask(StartIdx(t))]
                                ELSE @]
             ELSE /\ worker' = [worker EXCEPT ![t] =
                        [@ EXCEPT !.pc = "store", !.postMode = "eager",
                                  !.d_argmax_output = ArgmaxMask(StartIdx(t))]]
                  /\ UNCHANGED <<wfaults, wproc>>

\* Copy to the host under checkCudaErrors, and localResults: one mask per
\* valid image.
GStore(t) ==
    /\ fn = GraphFn
    /\ wproc = "running"
    /\ worker[t].pc = "store"
    /\ UNCHANGED <<rvars, svars, cvars, mvars, pvars, fn, num_images, num_streams, results, graph_usage,
                   capFailed, mainpc, engine, resultMutex>>
    /\ \E ok \in BOOLEAN :
         /\ MayFail(ok)
         /\ wfaults' = FaultsAfter(ok)
         /\ wproc' = IF ok THEN wproc ELSE "exited"
         /\ worker' = [worker EXCEPT ![t] =
               IF ok THEN [@ EXCEPT !.pc = "lock",
                                    !.localResults =
                                        LocalResults(worker[t].subTensor, RetainedCount(t))]
                     ELSE @]

\* allResults[startIdx + i] = localResults[i] inside the lock scope, and the
\* end of the scope (both fixed-batch functions).
BatchWrite(t) ==
    /\ fn \in FixedBatchFns
    /\ wproc = "running"
    /\ worker[t].pc = "write"
    /\ results' = [img \in Images |->
                     IF (img - StartIdx(t) + 1) \in 1..Len(worker[t].localResults)
                       THEN worker[t].localResults[img - StartIdx(t) + 1]
                       ELSE results[img]]
    /\ resultMutex' = resultMutex \ {t}
    /\ worker' = [worker EXCEPT ![t].pc = "cleanup"]
    /\ UNCHANGED <<rvars, svars, cvars, mvars, pvars, fn, num_images, num_streams, graph_usage, wproc,
                   wfaults, capFailed, mainpc, engine>>

\* cleanup: graph, buffers, streams and context are released.
GCleanup(t) ==
    /\ fn = GraphFn
    /\ wproc = "running"
    /\ worker[t].pc = "cleanup"
    /\ worker' = [worker EXCEPT ![t] =
          [@ EXCEPT !.pc = "finished", !.postprocessGraph = NoGraph,
                    !.postprocessGraphExec = NoGraph, !.live = {},
                    !.streams = "destroyed", !.context = "destroyed"]]
    /\ UNCHANGED <<rvars, svars, cvars, mvars, pvars, fn, num_images, num_streams, results, graph_usage,
                   wproc, wfaults, capFailed, mainpc, engine, resultMutex>>

\* ------------------------- measure_segmentation_trt_performance_mul_concurrent
\* The buffers of one sub-batch: pinned and device input, pinned and device
\* output.
MulBuffers(img) == {Buf(n, img) : n \in {"h_input", "d_input", "h_output", "d_output"}}

\* Thread entry: context, one stream, range.
MStart(t) ==
    /\ fn = MulFn
    /\ wproc = "running"
    /\ worker[t].pc = "start"
    /\ UNCHANGED <<rvars, svars, cvars, mvars, pvars, fn, num_images, num_streams, results, graph_usage,
                   capFailed, mainpc, engine, resultMutex>>
    /\ \E outcome \in StartOutcomes :
         /\ MayFail(outcome = "ok")
         /\ wfaults' = FaultsAfter(outcome = "ok")
         /\ wproc' = IF outcome = "stream_error" THEN "exited" ELSE wproc
         /\ worker' = [worker EXCEPT ![t] =
               IF outcome = "no_context" THEN [@ EXCEPT !.pc = "finished"]
               ELSE IF outcome = "stream_error" THEN [@ EXCEPT !.context = "live"]
               ELSE IF ValidCount(t) <= 0
                      THEN \* return with the context and the stream alive
                           [@ EXCEPT !.pc = "finished", !.context = "live",
                                     !.streams = "live"]
                      ELSE [@ EXCEPT !.pc = "alloc", !.img_idx = StartIdx(t),
                                     !.context = "live", !.streams = "live"]]

\* Slice, padding to 4, and every allocation and the copy of the input, each
\* under checkCudaErrors.
MAlloc(t) ==
    /\ fn = MulFn
    /\ wproc = "running"
    /\ worker[t].pc = "alloc"
    /\ UNCHANGED <<rvars, svars, cvars, mvars, pvars, fn, num_images, num_streams, results, graph_usage,
                   capFailed, mainpc, engine, resultMutex>>
    /\ \E ok \in BOOLEAN :
         /\ MayFail(ok)
         /\ wfaults' = FaultsAfter(ok)
         /\ wproc' = IF ok THEN wproc ELSE "exited"
         /\ worker' = [worker EXCEPT ![t] =
               IF ok THEN [@ EXCEPT !.pc = "enqueue",
                                    !.subTensor = PadSubBatch(SubBatchSlice(t)),
                                    !.live = @ \cup MulBuffers(StartIdx(t))]
                     ELSE @]

\* Three warm-up enqueues whose result is not looked at, then the enqueue
\* whose failure ends the process.
MEnqueue(t) ==
    /\ fn = MulFn
    /\ wproc = "running"
    /\ worker[t].pc = "enqueue"
    /\ UNCHANGED <<rvars, svars, cvars, mvars, pvars, fn, num_images, num_streams, results, graph_usage,
                   capFailed, mainpc, engine, resultMutex>>
    /\ \E ok \in BOOLEAN :
         /\ MayFail(ok)
         /\ wfaults' = FaultsAfter(ok)
         /\ wproc' = IF ok THEN wproc ELSE "exited"
         /\ worker' = [worker EXCEPT ![t] =
               IF ok THEN [@ EXCEPT !.pc = "post"]
                     ELSE [@ EXCEPT !.enqueueFailed = TRUE]]

\* Copy of the output to the host under checkCudaErrors, channel-wise argmax,
\* and localResults: one mask per valid image.
MPost(t) ==
    /\ fn = MulFn
    /\ wproc = "running"
    /\ worker[t].pc = "post"
    /\ UNCHANGED <<rvars, svars, cvars, mvars, pvars, fn, num_images, num_streams, results, graph_usage,
                   capFailed, mainpc, engine, resultMutex>>
    /\ \E ok \in BOOLEAN :
         /\ MayFail(ok)
         /\ wfaults' = FaultsAfter(ok)
         /\ wproc' = IF ok THEN wproc ELSE "exited"
         /\ worker' = [worker EXCEPT ![t] =
               IF ok THEN [@ EXCEPT !.pc = "lock", !.postMode = "eager",
                                    !.localResults =
                                        LocalResults(worker[t].subTensor, RetainedCount(t))]
                     ELSE @]

\* The buffers are freed, the stream and the context destroyed.
MCleanup(t) ==
    /\ fn = MulFn
    /\ wproc = "running"
    /\ worker[t].pc = "cleanup"
    /\ worker' = [worker EXCEPT ![t] =
          [@ EXCEPT !.pc = "finished", !.live = {},
                    !.streams = "destroyed", !.context = "destroyed"]]
    /\ UNCHANGED <<rvars, svars, cvars, mvars, pvars, fn, num_images, num_streams, results, graph_usage,
                   wproc, wfaults, capFailed, mainpc, engine, resultMutex>>

\* ----------------------------------------------------- worker specification
PipelineIdle ==
    /\ entry = "none"
    /\ nFrames = 0
    /\ nextFrame = 0
    /\ batch_count = 0
    /\ original_frames = <<>>
    /\ freed_frames = <<>>
    /\ batch_frames = <<>>
    /\ segFuture = [k \in 1..2 |-> NoTask]
    /\ segFutureValid = [k \in 1..2 |-> FALSE]
    /\ grayscale_masks = <<>>
    /\ frames_view = <<>>
    /\ pc = "idle"
    /\ phase = "loop"
    /\ sub = 1
    /\ i = 0
    /\ written = <<>>
    /\ lastKey = "none"
    /\ quitSeen = FALSE
    /\ held = {}
    /\ faults = 0

\* The state when the worker threads have been created: a live engine, n >= 1
\* images, an empty result per image.
InitWorker ==
    /\ PipelineIdle
    /\ MipmapIdle
    /\ CompositeIdle
    /\ StartupIdle
    /\ ReduceIdle
    /\ fn \in SingleFns \cup FixedBatchFns
    /\ num_images \in IF fn \in FixedBatchFns THEN 1..MaxBatch ELSE 1..MaxImages
    /\ num_streams \in IF fn \in FixedBatchFns THEN {numThreads} ELSE 1..MaxStreams
    /\ worker = [t \in 0..(num_streams - 1) |-> NewWorker]
    /\ results = [img \in 0..(num_images - 1) |-> EmptyMat]
    /\ graph_usage = [t \in 0..(num_streams - 1) |-> FALSE]
    /\ wproc = "running"
    /\ wfaults = 0
    /\ capFailed = {}
    /\ mainpc = "joining"
    /\ engine = "live"
    /\ resultMutex = {}

NextWorker ==
    \/ \E t \in Workers : WStart(t)
    \/ \E t \in Workers : WAlloc(t)
    \/ \E t \in Workers : WEnqueue(t)
    \/ \E t \in Workers : WCapture(t)
    \/ \E t \in Workers : WPost(t)
    \/ \E t \in Workers : WStore(t)
    \/ \E t \in Workers : AcquireResultMutex(t)
    \/ \E t \in Workers : WWrite(t)
    \/ \E t \in Workers : WEpilogue(t)
    \/ \E t \in Workers : GStart(t)
    \/ \E t \in Workers : GAlloc(t)
    \/ \E t \in Workers : GWarmup(t)
    \/ \E t \in Workers : GCapture(t)
    \/ \E t \in Workers : GEnqueue(t)
    \/ \E t \in Workers : GPost(t)
    \/ \E t \in Workers : GStore(t)
    \/ \E t \in Workers : BatchWrite(t)
    \/ \E t \in Workers : GCleanup(t)
    \/ \E t \in Workers : MStart(t)
    \/ \E t \in Workers : MAlloc(t)
    \/ \E t \in Workers : MEnqueue(t)
    \/ \E t \in Workers : MPost(t)
    \/ \E t \in Workers : MCleanup(t)
    \/ WJoin
    \/ CallAgain
    \/ CallerCleanup

SpecWorker == InitWorker /\ [][NextWorker]_vars


\* ================================================ triple-buffered mipmap
\* triple_buffered_mipmap_pipeline and apply_mipmap_async (glow_effect.cpp).
\* Masks and slots are numbered from 0, as in the source.
Slots == 0..(numBuffers - 1)
Masks == 0..(N - 1)
NoMask == 0 - 1

\* A default-constructed cv::Mat of outputImages; a harvested one records the
\* mask whose filter result it was copied from, and the step and slot of the copy.
EmptyOutput == [content |-> NoMask, step |-> NoMask, slot |-> NoMask]
NotIssued == [step |-> NoMask, slot |-> NoMask]

\* One operation enqueued on a stream on behalf of mask k.
Op(kind, k) == [kind |-> kind, mask |-> k]

\* int bufIdx = i % numBuffers of the issue half of the loop body.
IssueSlot(step) == step % numBuffers

\* int bufIdx = (i - 2) % numBuffers of the harvest half of the loop body.
HarvestSlot_Current(step) == step % numBuffers
HarvestSlot(step) == (step - HarvestLag) % numBuffers

\* apply_mipmap_async on a stream: the filter work, then the callback that
\* releases the pinned source buffer.
ApplyMipmapAsync(stream, k) == stream \o <<Op("filter", k), Op("callback", k)>>

\* The outcomes of a call wrapped in checkCudaErrors.
MipOutcomes == IF mfaults < MaxMipFaults THEN {"ok", "cuda_error"} ELSE {"ok"}

\* What cudaFreeHost leaves of the source buffer when it is called from inside
\* a stream callback: the runtime forbids API calls there and may refuse the
\* call (cudaErrorNotPermitted), in which case the buffer stays pinned.
CallbackFreeOutcomes == {"freed", "pinned"}

\* The first half of one loop iteration: for i < N, fill tripleSrc, start the
\* asynchronous filter of mask i into tripleDst[i % 3] and record the event.
MipIssue ==
    /\ mpc = "issue"
    /\ UNCHANGED <<pvars, wvars, cvars, svars, rvars>>
    /\ UNCHANGED <<N, mip_i, tripleDst, outputImages>>
    /\ IF mip_i < N
         THEN \E outcome \in MipOutcomes :
                IF outcome = "ok"
                  THEN LET bufIdx == IssueSlot(mip_i) IN
                       /\ src_img' = [src_img EXCEPT ![mip_i] = "pinned"]
                       /\ mipmapStreams' =
                            [mipmapStreams EXCEPT ![bufIdx] =
                               Append(ApplyMipmapAsync(@, mip_i), Op("event", mip_i))]
                       /\ mipmapDone' = [mipmapDone EXCEPT ![bufIdx] =
                                           [record |-> mip_i, complete |-> FALSE]]
                       /\ issued' = [issued EXCEPT ![mip_i] =
                                       [step |-> mip_i, slot |-> bufIdx]]
                       /\ mpc' = "harvest"
                       /\ UNCHANGED mfaults
                  ELSE /\ mpc' = "exited"
                       /\ mfaults' = mfaults + 1
                       /\ UNCHANGED <<src_img, mipmapStreams, mipmapDone, issued>>
         ELSE /\ mpc' = "harvest"
              /\ UNCHANGED <<src_img, mipmapStreams, mipmapDone, issued, mfaults>>

\* for (int i = 0; i < N + 2; ++i): the increment and the loop test.
NextStepPc(step) == IF step + 1 < N + HarvestLag THEN "issue" ELSE "release"

\* The second half of one loop iteration: for 0 <= i - 2 < N, query the event
\* of slot (i - 2) % 3 without blocking; copy tripleDst into outputImages[i - 2]
\* on cudaSuccess, do nothing on cudaErrorNotReady, end the process otherwise.
MipHarvest ==
    /\ mpc = "harvest"
    /\ UNCHANGED <<pvars, wvars, cvars, svars, rvars>>
    /\ UNCHANGED <<N, mipmapStreams, mipmapDone, tripleDst, src_img, issued>>
    /\ LET k == mip_i - HarvestLag
           bufIdx == HarvestSlot(mip_i)
       IN  IF k >= 0 /\ k < N
             THEN \E outcome \in MipOutcomes :
                    IF outcome = "ok"
                      THEN /\ outputImages' =
                                IF mipmapDone[bufIdx].complete
                                  THEN [outputImages EXCEPT ![k] =
                                          [content |-> tripleDst[bufIdx],
                                           step |-> mip_i, slot |-> bufIdx]]
                                  ELSE outputImages
                           /\ mip_i' = mip_i + 1
                           /\ mpc' = NextStepPc(mip_i)
                           /\ UNCHANGED mfaults
                      ELSE /\ mpc' = "exited"
                           /\ mfaults' = mfaults + 1
                           /\ UNCHANGED <<outputImages, mip_i>>
             ELSE /\ mip_i' = mip_i + 1
                  /\ mpc' = NextStepPc(mip_i)
                  /\ UNCHANGED <<outputImages, mfaults>>

\* After the loop: free tripleSrc and tripleDst, destroy the streams and the
\* events, return outputImages.  Work still enqueued on a destroyed stream
\* runs to completion.
MipRelease ==
    /\ mpc = "release"
    /\ UNCHANGED <<pvars, wvars, cvars, svars, rvars>>
    /\ UNCHANGED <<N, mip_i, mipmapStreams, mipmapDone, tripleDst, src_img,
                   outputImages, issued>>
    /\ \E outcome \in MipOutcomes :
         IF outcome = "ok"
           THEN mpc' = "returned" /\ UNCHANGED mfaults
           ELSE mpc' = "exited" /\ mfaults' = mfaults + 1

\* The oldest operation of stream b is of this kind and the process lives.
StreamHead(b, kind) ==
    /\ mpc \notin {"idle", "exited"}
    /\ mipmapStreams[b] # <<>>
    /\ Head(mipmapStreams[b]).kind = kind

\* The filter work of filter_mipmap_async completes on its stream, at any time
\* after it was enqueued: tripleDst of the slot now holds that mask's result.
FilterComplete(b) ==
    /\ StreamHead(b, "filter")
    /\ UNCHANGED <<pvars, wvars, cvars, svars, rvars>>
    /\ UNCHANGED <<N, mip_i, mpc, mipmapDone, src_img, outputImages, issued, mfaults>>
    /\ tripleDst' = [tripleDst EXCEPT ![b] = Head(mipmapStreams[b]).mask]
    /\ mipmapStreams' = [mipmapStreams EXCEPT ![b] = Tail(@)]

\* The callback added by cudaStreamAddCallback runs once the work enqueued
\* before it has completed, and calls cudaFreeHost on the source buffer.
CallbackRun(b) ==
    /\ StreamHead(b, "callback")
    /\ UNCHANGED <<pvars, wvars, cvars, svars, rvars>>
    /\ UNCHANGED <<N, mip_i, mpc, mipmapDone, tripleDst, outputImages, issued, mfaults>>
    /\ \E r \in CallbackFreeOutcomes :
         src_img' = [src_img EXCEPT ![Head(mipmapStreams[b]).mask] = r]
    /\ mipmapStreams' = [mipmapStreams EXCEPT ![b] = Tail(@)]

\* The record of mipmapDone[b] is reached by the stream: the event is complete
\* unless it has been recorded again since.
EventComplete(b) ==
    /\ StreamHead(b, "event")
    /\ UNCHANGED <<pvars, wvars, cvars, svars, rvars>>
    /\ UNCHANGED <<N, mip_i, mpc, tripleDst, src_img, outputImages, issued, mfaults>>
    /\ mipmapDone' =
         IF mipmapDone[b].record = Head(mipmapStreams[b]).mask
           THEN [mipmapDone EXCEPT ![b].complete = TRUE]
           ELSE mipmapDone
    /\ mipmapStreams' = [mipmapStreams EXCEPT ![b] = Tail(@)]

\* The state when the streams, events and pinned buffers have been created:
\* N masks, nothing enqueued, every event never recorded (a query of such an
\* event succeeds), every output empty.
InitMipmap ==
    /\ PipelineIdle
    /\ WorkerIdle
    /\ CompositeIdle
    /\ StartupIdle
    /\ ReduceIdle
    /\ N \in 0..MaxMasks
    /\ mip_i = 0
    /\ mpc = "issue"
    /\ mipmapStreams = [b \in Slots |-> <<>>]
    /\ mipmapDone = [b \in Slots |-> [record |-> NoMask, complete |-> TRUE]]
    /\ tripleDst = [b \in Slots |-> NoMask]
    /\ src_img = [k \in Masks |-> "none"]
    /\ outputImages = [k \in Masks |-> EmptyOutput]
    /\ issued = [k \in Masks |-> NotIssued]
    /\ mfaults = 0

NextMipmap ==
    \/ MipIssue
    \/ MipHarvest
    \/ MipRelease
    \/ \E b \in Slots : FilterComplete(b)
    \/ \E b \in Slots : CallbackRun(b)
    \/ \E b \in Slots : EventComplete(b)

SpecMipmap == InitMipmap /\ [][NextMipmap]_vars


\* ============================================================ compositing
\* glow_blow and mix_images (glow_effect.cpp), as glow_effect_image chains
\* them.  An image is its size <<cols, rows>>, its type and its pixels in row
\* order; a pixel of a multi-channel image is the tuple of its channels.
Area(size) == size[1] * size[2]
Sizes ==
    {<<0, 0>>} \cup
    {s \in (1..MaxPixels) \X (1..MaxPixels) : Area(s) <= MaxPixels}
EmptyCvMat == [size |-> <<0, 0>>, type |-> "none", data |-> <<>>]
IsEmpty(img) == Area(img.size) = 0

\* Every non-empty image of one type whose pixels are drawn from a set.
ImagesOf(type, pixels) ==
    UNION {{[size |-> s, type |-> type, data |-> d] : d \in [1..Area(s) -> pixels]} :
              s \in Sizes \ {<<0, 0>>}}

\* The image of one size whose pixels all have one value.
Uniform(size, type, pixel) ==
    IF Area(size) = 0 THEN EmptyCvMat
    ELSE [size |-> size, type |-> type, data |-> [p \in 1..Area(size) |-> pixel]]

Abs(x) == IF x < 0 THEN 0 - x ELSE x
Max(a, b) == IF a > b THEN a ELSE b

\* cv::Vec4b overlay_color = { 128, 0, 128, 255 } and a pixel of cv::Mat::zeros.
overlay_color == <<128, 0, 128, 255>>
ZeroPixel == <<0, 0, 0, 0>>

\* std::abs(mask_pixel - param_KeyLevel) < Delta
MatchesTarget_Inclusive(mask_pixel, keyLevel, delta) == Abs(mask_pixel - keyLevel) <= delta
MatchesTarget(mask_pixel, keyLevel, delta) == Abs(mask_pixel - keyLevel) < delta

\* glow_blow: what dst_rgba holds after the call.  An empty mask, or one that
\* is not CV_8UC1, returns before dst_rgba is touched.
GlowBlowResult(mask, keyLevel, delta, dst) ==
    IF IsEmpty(mask) THEN dst
    ELSE IF mask.type # "CV_8UC1" THEN dst
    ELSE [size |-> mask.size, type |-> "CV_8UC4",
          data |-> [p \in 1..Area(mask.size) |->
                      IF MatchesTarget(mask.data[p], keyLevel, delta)
                        THEN overlay_color ELSE ZeroPixel]]

\* cv::cvtColor(..., cv::COLOR_BGR2BGRA) of a pixel: an opaque alpha is added.
BGR2BGRA(pixel) == IF Len(pixel) = 4 THEN pixel ELSE pixel \o <<255>>

\* cv::cvtColor(..., cv::COLOR_BGR2GRAY) of an 8-bit pixel, in the fixed-point
\* arithmetic of OpenCV (weights 1868, 9617, 4899 over 2^14, rounded).
BGR2GRAY(pixel) ==
    (pixel[1] * 1868 + pixel[2] * 9617 + pixel[3] * 4899 + 8192) \div 16384

\* The conversion of an int to uchar.
ToUchar(x) == x % 256

\* uchar alpha = (original_alpha * static_cast<int>(param_KeyScale)) >> 8
BlendWeight(original_alpha, keyScale) == ToUchar((original_alpha * keyScale) \div 256)

\* One channel of the inner loop: (src * (255 - alpha) + dst * alpha) >> 8,
\* limited to 0..255.
BlendChannel(src, dst, a) == Min(255, Max(0, (src * (255 - a) + dst * a) \div 256))

\* The two guards at the head of mix_images.
MixAccepts_NoSizeCheck(src, dst, mip) ==
    ~IsEmpty(src) /\ ~IsEmpty(dst) /\ ~IsEmpty(mip)
MixAccepts(src, dst, mip) ==
    /\ ~IsEmpty(src) /\ ~IsEmpty(dst) /\ ~IsEmpty(mip)
    /\ src.size = dst.size
    /\ src.size = mip.size

\* The weights mix_images uses, one per pixel of src.  A pixel outside the
\* other images reads whatever lies behind them.
PixelOr(img, p, other) == IF p \in DOMAIN img.data THEN img.data[p] ELSE other
MixWeights(src, mip, keyScale) ==
    [p \in 1..Area(src.size) |->
        BlendWeight(BGR2GRAY(PixelOr(mip, p, ZeroPixel)), keyScale)]

\* mix_images: what output_image holds after the call.
MixImagesResult(src, dst, mip, out, keyScale) ==
    IF ~MixAccepts(src, dst, mip) THEN out
    ELSE [size |-> src.size, type |-> "CV_8UC4",
          data |-> [p \in 1..Area(src.size) |->
                      [k \in 1..4 |->
                         BlendChannel(BGR2BGRA(src.data[p])[k],
                                      PixelOr(dst, p, ZeroPixel)[k],
                                      MixWeights(src, mip, keyScale)[p])]]]

\* glow_blow(grayscale_mask, dst_rgba, param_KeyLevel, Delta)
GlowBlow ==
    /\ cpc = "glow_blow"
    /\ UNCHANGED <<pvars, wvars, mvars, svars, rvars>>
    /\ dst_rgba' = GlowBlowResult(args.mask, args.param_KeyLevel, args.Delta, dst_rgba)
    /\ cpc' = "mix_images"
    /\ UNCHANGED <<args, output_image, alpha>>

\* mix_images(src_img, dst_rgba, mipmap_result, final_result, param_KeyScale)
MixImagesCall ==
    /\ cpc = "mix_images"
    /\ UNCHANGED <<pvars, wvars, mvars, svars, rvars>>
    /\ output_image' = MixImagesResult(args.src_img, dst_rgba, args.mipmap_result,
                                       output_image, args.param_KeyScale)
    /\ alpha' = IF MixAccepts(args.src_img, dst_rgba, args.mipmap_result)
                  THEN MixWeights(args.src_img, args.mipmap_result, args.param_KeyScale)
                  ELSE <<>>
    /\ cpc' = "done"
    /\ UNCHANGED <<args, dst_rgba>>

\* Input values.
MaskValues == {0, 36, 37, 54, 60, 76}
KeyLevels == {0, 56, 255}
Deltas == {0, 2, 10, 20}
KeyScales == {0, 1, 255, 256, 257, 258, 600}
FramePixels == {<<0, 0, 0>>, <<255, 128, 1>>}
LumaSamples == {110, 255}
GrayPixel(l) == <<l, l, l, 255>>
StaleImage == Uniform(<<1, 1>>, "CV_8UC4", <<9, 9, 9, 9>>)

Args(mask, keyLevel, delta, src, mip, keyScale) ==
    [mask |-> mask, param_KeyLevel |-> keyLevel, Delta |-> delta,
     src_img |-> src, mipmap_result |-> mip, param_KeyScale |-> keyScale]

\* Any mask, target and tolerance; a frame and a mipmap result of its size.
GlowArgs ==
    {Args(m, k, d, Uniform(m.size, "CV_8UC3", <<255, 128, 1>>),
          Uniform(m.size, "CV_8UC4", GrayPixel(255)), 600) :
       m \in ImagesOf("CV_8UC1", MaskValues) \cup
             ImagesOf("CV_8UC3", {<<60, 60, 60>>}) \cup {EmptyCvMat},
       k \in KeyLevels, d \in Deltas}

\* Any sizes of mask, frame and mipmap result; no intensity and the intensity
\* glow_effect_video_single_batch_parallel sets.
MixArgs ==
    {Args(m, 56, 20, s, g, ks) :
       m \in ImagesOf("CV_8UC1", {0, 60}) \cup {EmptyCvMat},
       s \in ImagesOf("CV_8UC3", FramePixels) \cup {EmptyCvMat},
       g \in ImagesOf("CV_8UC4", {GrayPixel(l) : l \in LumaSamples}) \cup {EmptyCvMat},
       ks \in {0, 600}}

\* One pixel, every luma and intensity.
PixelArgs ==
    {Args(Uniform(<<1, 1>>, "CV_8UC1", v), 56, 20,
          Uniform(<<1, 1>>, "CV_8UC3", f),
          Uniform(<<1, 1>>, "CV_8UC4", GrayPixel(l)), ks) :
       v \in {0, 60}, f \in FramePixels, l \in 0..255, ks \in KeyScales}

\* The state before glow_blow is called: dst_rgba is a default-constructed
\* cv::Mat; the output image is empty or holds an earlier result.
InitComposite ==
    /\ PipelineIdle
    /\ WorkerIdle
    /\ MipmapIdle
    /\ StartupIdle
    /\ ReduceIdle
    /\ cpc = "glow_blow"
    /\ args \in GlowArgs \cup MixArgs \cup PixelArgs
    /\ dst_rgba = EmptyCvMat
    /\ output_image \in {EmptyCvMat, StaleImage}
    /\ alpha = <<>>

NextComposite ==
    \/ GlowBlow
    \/ MixImagesCall

SpecComposite == InitComposite /\ [][NextComposite]_vars


\* ================================================================ start-up
\* The head of every function that obtains an engine: the plan file is read,
\* the engine is deserialized (or handed in), and the result is tested.
SegmentationFn == "measure_segmentation_trt_performance"
SegmentationMulFn == "measure_segmentation_trt_performance_mul"
SuperResolutionFn == "measure_trt_performance"
PreloadedFn == "single_batch_parallel_preloaded"
SingleBatchFn == "single_batch_parallel"
SingleEntryFn == "glow_effect_video_single_batch_parallel"
StartupFns == {SegmentationFn, SegmentationMulFn, SuperResolutionFn, MulFn, GraphFn,
               SingleBatchFn, PreloadedFn, SingleEntryFn}

\* Functions that test planFile.is_open() before reading the plan.
ChecksPlanOpen == {SingleBatchFn, SingleEntryFn}
\* Functions that return an empty vector for an empty input before anything else.
ChecksNoImages == {SingleBatchFn}
\* Functions that call engine->createExecutionContext() on the line after the
\* deserialization, and test engine and context together afterwards.
ContextBeforeCheck == {SegmentationFn, SegmentationMulFn, SuperResolutionFn}
\* Functions whose test ends in exit(EXIT_FAILURE); the others return.
ExitsOnNullEngine == {SegmentationFn, SegmentationMulFn, SuperResolutionFn, MulFn, GraphFn}
\* Functions whose failure branch calls runtime->destroy().
DestroysRuntimeOnNull == {SingleBatchFn, SingleEntryFn}

\* runtime->deserializeCudaEngine: null for a plan that is missing (an empty
\* buffer) or corrupt, and possibly for a plan the runtime cannot load.
DeserializeOutcomes(p) == IF p = "valid" THEN {"live", "null"} ELSE {"null"}

\* The function starts: the runtime is created (and, where the code does so,
\* the input is counted and the plan file opened).
StartOpenPlan ==
    /\ spc = "start"
    /\ sfn # PreloadedFn
    /\ UNCHANGED <<pvars, wvars, mvars, cvars, rvars>>
    /\ UNCHANGED <<sfn, plan, snum_images, sengine, scontext, nullEngineCalls>>
    /\ IF sfn \in ChecksNoImages /\ snum_images = 0
         THEN spc' = "returned" /\ sruntime' = "none"
         ELSE /\ sruntime' = "live"
              /\ spc' = IF sfn \in ChecksPlanOpen /\ plan = "missing"
                          THEN "returned" ELSE "deserialize"

\* ICudaEngine* engine = runtime->deserializeCudaEngine(plan.data(), plan.size())
Deserialize ==
    /\ spc = "deserialize"
    /\ UNCHANGED <<pvars, wvars, mvars, cvars, rvars>>
    /\ UNCHANGED <<sfn, plan, snum_images, sruntime, scontext, nullEngineCalls>>
    /\ \E e \in DeserializeOutcomes(plan) : sengine' = e
    /\ spc' = IF sfn \in ContextBeforeCheck THEN "context" ELSE "check"

\* IExecutionContext* context = engine->createExecutionContext(), made before
\* engine has been tested.  On a null engine the call is undefined: the
\* process crashes, or the call comes back with a null or an arbitrary pointer.
CreateContextUnchecked ==
    /\ spc = "context"
    /\ UNCHANGED <<pvars, wvars, mvars, cvars, rvars>>
    /\ UNCHANGED <<sfn, plan, snum_images, sruntime, sengine>>
    /\ IF sengine = "live"
         THEN /\ \E c \in {"live", "null"} : scontext' = c
              /\ spc' = "check"
              /\ UNCHANGED nullEngineCalls
         ELSE /\ nullEngineCalls' = nullEngineCalls \cup {"createExecutionContext"}
              /\ \/ spc' = "crashed" /\ UNCHANGED scontext
                 \/ spc' = "check" /\ \E c \in {"null", "garbage"} : scontext' = c

\* if (!engine) / if (!engine || !context): exit, or clean up and return; the
\* function goes on when the test passes.
CheckEngine ==
    /\ spc = "check"
    /\ UNCHANGED <<pvars, wvars, mvars, cvars, rvars>>
    /\ UNCHANGED <<sfn, plan, snum_images, sengine, scontext, nullEngineCalls>>
    /\ IF sengine = "null" \/ (sfn \in ContextBeforeCheck /\ scontext = "null")
         THEN /\ spc' = IF sfn \in ExitsOnNullEngine THEN "exited" ELSE "returned"
              /\ sruntime' = IF sfn \in DestroysRuntimeOnNull THEN "destroyed" ELSE sruntime
         ELSE /\ spc' = IF sfn = PreloadedFn /\ snum_images = 0 THEN "returned" ELSE "run"
              /\ UNCHANGED sruntime

\* The state at the call: a plan file that is valid, corrupt or missing and,
\* for the function that is handed an engine, that engine.
InitStartup ==
    /\ PipelineIdle
    /\ WorkerIdle
    /\ MipmapIdle
    /\ CompositeIdle
    /\ ReduceIdle
    /\ sfn \in StartupFns
    /\ plan \in {"valid", "corrupt", "missing"}
    /\ snum_images \in 0..MaxImages
    /\ sengine \in IF sfn = PreloadedFn THEN {"live", "null"} ELSE {"none"}
    /\ spc = IF sfn = PreloadedFn THEN "check" ELSE "start"
    /\ sruntime = "none"
    /\ scontext = "none"
    /\ nullEngineCalls = {}

NextStartup ==
    \/ StartOpenPlan
    \/ Deserialize
    \/ CreateContextUnchecked
    \/ CheckEngine

SpecStartup == InitStartup /\ [][NextStartup]_vars


\* ================================================== post-processing reduce
\* measure_segmentation_trt_performance_mul_concurrent (and the two
\* single-image measure functions): torch::max over the class dimension of the
\* output tensor, the index tensor times a scale factor, converted to uchar.

\* Class dimensions an engine may report in outputDims.d[1].
ClassDims == {2, 21, MaxClasses}

\* The scores of one pixel: 1 for at most two classes, 0 for the others, so
\* that rows with a single maximum, with a tie and with no peak all occur.
ScoreRows(n) ==
    {[c \in 1..n |-> IF c \in peaks THEN 1 ELSE 0] :
        peaks \in {{}} \cup {{a, b} : a \in 1..n, b \in 1..n}}

\* std::get<1>(torch::max(outputTensor, 1)): the 0-based index of the first
\* maximal value along the class dimension.
TorchMaxIndex(row) ==
    (CHOOSE c \in 1..Len(row) :
        /\ \A d \in 1..Len(row) : row[d] <= row[c]
        /\ \A d \in 1..(c - 1) : row[d] < row[c]) - 1

\* int scaleFactor = 255 / 21;
scaleFactor == 255 \div 21

\* imagePost[i].to(torch::kU8) of segMask * scaleFactor.
PostProcessResult(tensor) ==
    [p \in 1..Len(tensor) |-> ToUchar(TorchMaxIndex(tensor[p]) * scaleFactor)]

\* One post-processing of the tensor; the mask of the previous one is kept
\* for comparison.
PostProcess ==
    /\ rpc \in {"ready", "reduced"}
    /\ firstPost' = imagePost
    /\ imagePost' = PostProcessResult(outputTensor)
    /\ rpc' = IF rpc = "ready" THEN "reduced" ELSE "again"
    /\ UNCHANGED <<pvars, wvars, mvars, cvars, svars, outputDims, outputTensor>>

InitReduce ==
    /\ PipelineIdle
    /\ WorkerIdle
    /\ MipmapIdle
    /\ CompositeIdle
    /\ StartupIdle
    /\ rpc = "ready"
    /\ outputDims \in ClassDims
    /\ outputTensor \in UNION {[1..k -> ScoreRows(outputDims)] : k \in 1..MaxTensorPixels}
    /\ imagePost = <<>>
    /\ firstPost = <<>>

NextReduce == PostProcess

SpecReduce == InitReduce /\ [][NextReduce]_vars


\* ================================================================== claims
Done == pc = "done"
RanToEndOfStream == Done /\ ~quitSeen /\ nFrames >= 1
WrittenIds == [j \in 1..Len(written) |-> written[j].frame.id]
\* First source frame of the last batch that was read.
LastBatchFirst(size) == size * (batch_count - 1) + 1

\* C1 -- glow_effect_video / glow_effect_video_graph: a video of N >= 1
\* frames run to end-of-stream without quit leaves exactly N frames in the
\* sink, frame j of the output being the blend of input frame j.
C1_EveryFrameOnceInOrder ==
    (entry \in VideoEntries /\ RanToEndOfStream) =>
        /\ Len(written) = nFrames
        /\ \A j \in 1..Len(written) :
             written[j].kind = "blend" /\ written[j].frame.id = j

\* C2 -- every blended frame written by the two 8-frame entry points pairs
\* original frame i of batch B with the mask inferred from frame i of the
\* same batch B.
C2_MaskOfSameBatchAndIndex ==
    entry \in VideoEntries =>
        \A j \in 1..Len(written) :
            (written[j].kind = "blend" /\ written[j].mask # Empty) =>
                /\ written[j].mask.b = written[j].frame.b
                /\ written[j].mask.i = written[j].frame.i

\* C3 -- when the read loop ends at end-of-stream with results pending, the
\* drain after the loop runs to completion and every frame of the last
\* launched batch is composited and written before the function returns.
C3_LastBatchDrained ==
    entry \in VideoEntries =>
        /\ pc # "crashed"
        /\ RanToEndOfStream =>
             \A id \in LastBatchFirst(BatchSize)..nFrames :
                 \E j \in 1..Len(written) :
                     written[j].kind = "blend" /\ written[j].frame.id = id

\* C4 (as claimed) -- while the results of batch N-1 are drained inside the
\* loop, the inference of the batch just read (batch N) is already launched.
TaskOfBatch(b) ==
    \E k \in 1..2 : segFuture[k].st # "none" /\ segFuture[k].in[1].b = b
C5_PaddingNotWritten ==
    (entry = "single" /\ RanToEndOfStream /\ faults = 0) =>
        Len(written) = nFrames

\* C6 -- the key is tested before each composited frame is written; once 'q'
\* has been observed no frame is written, no frame is read and no inference
\* is launched, in any of the three entry points.
C6_QuitStopsEmission ==
    [][ /\ quitSeen =>
             /\ written' = written
             /\ nextFrame' = nextFrame
             /\ batch_count' = batch_count
             /\ \A k \in 1..2 : segFuture'[k].st = "running" => segFuture[k].st = "running"
        /\ written' # written =>
             \/ lastKey' = "other"
             \/ lastKey' = "ignored" /\ written' = Append(written, BlankOut)
      ]_vars
C6_Witness ==
    /\ quitSeen
    /\ Done
    /\ Len(written) >= 1

\* C7 -- observing 'q' transfers control to the cleanup path, and when the
\* function has returned nothing it acquired is still held and no inference
\* task is still running.
C7_QuitReleasesAll ==
    /\ (quitSeen /\ pc # "exited") => pc \in {"cleanup", "return", "done"}
    /\ Done => (held = {} /\ \A k \in 1..2 : segFuture[k].st # "running")
C7_Witness ==
    /\ quitSeen
    /\ Done
    /\ \E k \in 1..2 : segFuture[k].st = "done"


\* C8: whenever a single-batch worker has replayed its captured graph, the
\* buffers the graph references are allocations that are still live.
C8_ReplayBuffersLive ==
    fn \in SingleFns =>
        \A t \in Workers :
            (worker[t].pc = "store" /\ worker[t].postMode = "graph") =>
                GraphRefs(worker[t].postprocessGraphExec) \subseteq worker[t].live

\* C9: per single-batch worker the graph state starts Uncaptured; capture is
\* entered only from a successful enqueue of an Uncaptured worker; a Captured
\* worker stays Captured with the same graph, never captures again and launches
\* the graph for every image it post-processes; a failed capture leaves both
\* graph handles null and the worker Uncaptured, that image is post-processed by
\* the eager kernel, and the next successful enqueue attempts capture again.
\* A later call of the function starts new threads, whose state is their own.
C9_StepOf(t) ==
    LET w == worker[t]
        v == worker'[t]
    IN  /\ w.pc = "start" => (~w.postGraphCaptured /\ w.postprocessGraphExec = NoGraph)
        /\ (v.pc = "capture" /\ w.pc # "capture") =>
              (w.pc = "enqueue" /\ ~w.postGraphCaptured
                 /\ ImageBuffers(v.img_idx) \subseteq v.live)
        /\ (w.pc = "enqueue" /\ v.pc = "post") => w.postGraphCaptured
        /\ (w.pc = "enqueue" /\ ~w.postGraphCaptured /\ v # w /\ v.img_idx = w.img_idx) =>
              v.pc = "capture"
        /\ (w.postGraphCaptured /\ v.pc # "finished") =>
              /\ v.postGraphCaptured
              /\ v.postprocessGraphExec = w.postprocessGraphExec
              /\ v.pc # "capture"
        /\ (w.pc = "post" /\ w.postGraphCaptured /\ v.pc = "store") =>
              v.postMode \in {"graph", "graph_failed_eager"}
        /\ (w.pc = "capture" /\ v.pc # "capture" /\ ~v.postGraphCaptured) =>
              /\ v.postprocessGraph = NoGraph
              /\ v.postprocessGraphExec = NoGraph
              /\ v.pc = "post"
              /\ v.img_idx = w.img_idx
        /\ (w.pc = "post" /\ ~w.postGraphCaptured /\ v.pc = "store") =>
              (v.postMode = "eager" /\ v.d_argmax_output = ArgmaxMask(w.img_idx))
C9_GraphStateMachine ==
    [][(fn \in SingleFns /\ batch_count' = batch_count) =>
         (\A t \in Workers : C9_StepOf(t))]_vars

\* A worker whose first capture failed, whose second image captured and whose
\* third image has been post-processed by a replay.
C9_Witness ==
    /\ fn \in SingleFns
    /\ \E t \in Workers :
         /\ StartIdx(t) \in capFailed
         /\ worker[t].postGraphCaptured
         /\ worker[t].postprocessGraphExec = GraphOver(StartIdx(t) + 1)
         /\ worker[t].img_idx = StartIdx(t) + 2
         /\ worker[t].pc = "store"
         /\ worker[t].postMode = "graph"

\* C10: a failed graph capture does not end the process and does not abort the
\* image or sub-batch: it is post-processed by the eager kernel and the mask
\* stored for it is the argmax of its own output tensor.
C10_CaptureFailureFallsBack ==
    /\ wproc = "exited" =>
          \A t \in Workers : ~(worker[t].pc = "capture" /\ StartIdx(t) \in capFailed)
    /\ \A t \in Workers :
          (worker[t].pc = "store" /\ worker[t].img_idx \in capFailed) =>
              /\ worker[t].postMode = "eager"
              /\ worker[t].d_argmax_output = ArgmaxMask(worker[t].img_idx)
    /\ \A img \in capFailed :
          results[img] # EmptyMat => results[img] = ArgmaxMask(img)


\* The inference functions the continuous video entry points call:
\* glow_effect_video, glow_effect_video_graph and
\* glow_effect_video_single_batch_parallel, in this order.
VideoPipelineFns == {MulFn, GraphFn, "single_batch_parallel_preloaded"}

\* C11: in the inference functions the video entry points call, the step in
\* which an enqueue fails leaves the process running and the thread goes on
\* past the failed enqueue (to its next image, or to its cleanup).
C11_EnqueueFailureSkips ==
    [][(fn \in VideoPipelineFns) =>
         (\A t \in Workers :
            (~worker[t].enqueueFailed /\ worker'[t].enqueueFailed) =>
                /\ wproc' = "running"
                /\ worker'[t].pc \in {"alloc", "epilogue", "cleanup"})]_vars


\* C12: a results entry changes only in a step of a thread that is inside the
\* lock scope of resultMutex, and at no time are two threads inside it.  (The
\* results vector is a local of one call: the next call builds a new one.)
C12_WritesUnderMutex ==
    [][LET writers == {t \in Workers : worker[t].pc = "write"}
       IN  /\ Cardinality(writers) <= 1
           /\ writers \subseteq resultMutex
           /\ (results' # results /\ batch_count' = batch_count) =>
                \E t \in writers : worker'[t].pc # "write" /\ t \notin resultMutex']_vars

\* One thread is writing while another waits for the mutex.
C12_Witness ==
    \E t \in Workers, u \in Workers :
        /\ t # u
        /\ worker[t].pc = "write"
        /\ worker[u].pc = "lock"
        /\ resultMutex = {t}


\* C13: the ranges [StartIdx(t), EndIdx(t)) of the workers are pairwise
\* disjoint, follow one another without a gap and together are exactly the
\* images 0..total-1; a worker whose range is empty allocates nothing,
\* computes no mask and never enters the lock scope, and every stored mask was
\* stored by the worker whose range holds its image.
C13_RangesPartition ==
    /\ \A t \in Workers, u \in Workers :
          t # u => SubBatchImages(t) \cap SubBatchImages(u) = {}
    /\ UNION {SubBatchImages(t) : t \in Workers} = Images
    /\ \A t \in Workers :
          (t + 1 \in Workers /\ SubBatchImages(t + 1) # {}) => StartIdx(t + 1) = EndIdx(t)
    /\ \A t \in Workers :
          SubBatchImages(t) = {} =>
              /\ worker[t].pc \in {"start", "finished"}
              /\ worker[t].live = {}
              /\ worker[t].localResults = <<>>
              /\ t \notin resultMutex
    /\ \A img \in Images :
          results[img] # EmptyMat =>
              \E t \in Workers : img \in SubBatchImages(t) /\ worker[t].pc # "start"

\* A worker with an empty range has returned and every image has its mask.
C13_Witness ==
    /\ \E t \in Workers : SubBatchImages(t) = {} /\ worker[t].pc = "finished"
    /\ \A img \in Images : results[img] = ArgmaxMask(img)
    /\ mainpc = "returned"


\* The threads of a fixed-batch call that have left the lock scope.
HasWritten(t) == worker[t].pc \in {"cleanup", "finished"} /\ worker[t].localResults # <<>>

\* C14: in both fixed-batch functions a sub-batch of fewer than 4 images is
\* enqueued as 4 slots, its own images followed by copies of its last one; a
\* thread hands exactly validCount masks to the results, into the entries of
\* its own images; no entry ever holds the mask of another image, and the
\* entries that hold a mask are exactly the images of the threads that wrote.
C14_PaddingNotSurfaced ==
    fn \in FixedBatchFns =>
        /\ \A t \in Workers :
              worker[t].subTensor # <<>> =>
                  /\ ValidCount(t) < FixedBatch => Len(worker[t].subTensor) = FixedBatch
                  /\ \A j \in 1..Len(worker[t].subTensor) :
                        worker[t].subTensor[j] =
                            IF j <= ValidCount(t) THEN StartIdx(t) + j - 1 ELSE EndIdx(t) - 1
        /\ \A t \in Workers :
              worker[t].pc \in {"lock", "write"} =>
                  Len(worker[t].localResults) = ValidCount(t)
        /\ \A img \in Images : results[img] \in {EmptyMat, ArgmaxMask(img)}
        /\ {img \in Images : results[img] # EmptyMat} =
              UNION {SubBatchImages(t) : t \in {u \in Workers : HasWritten(u)}}

\* A thread with fewer than 4 images has padded, inferred and written.
C14_Witness ==
    /\ fn \in FixedBatchFns
    /\ \E t \in Workers :
         /\ ValidCount(t) \in 1..(FixedBatch - 1)
         /\ Len(worker[t].subTensor) = FixedBatch
         /\ HasWritten(t)
         /\ \A img \in SubBatchImages(t) : results[img] = ArgmaxMask(img)

\* C15: in both fixed-batch functions every enqueue is made on an input of
\* exactly 4 slots.
C15_EnqueueBatchIsFour ==
    fn \in FixedBatchFns =>
        \A t \in Workers :
            worker[t].pc \in {"warmup", "capture", "enqueue"} =>
                Len(worker[t].subTensor) = FixedBatch

\* C16: once the engine has been destroyed no execution context created from
\* it is alive.
C16_ContextsDestroyedFirst ==
    engine = "destroyed" => \A t \in Workers : worker[t].context # "live"

\* Filter operations of slot b enqueued and not yet completed.
FiltersInFlight(b) ==
    Cardinality({j \in 1..Len(mipmapStreams[b]) : mipmapStreams[b][j].kind = "filter"})

\* Some operation of the call for mask k is still enqueued on its stream.
CallPending(k, kinds) ==
    \E j \in 1..Len(mipmapStreams[IssueSlot(k)]) :
        /\ mipmapStreams[IssueSlot(k)][j].mask = k
        /\ mipmapStreams[IssueSlot(k)][j].kind \in kinds

C18_EveryMaskReturned ==
    mpc = "returned" => \A k \in Masks : outputImages[k] # EmptyOutput

\* C19: a slot holds at most one uncompleted filter, a mask is issued into a
\* slot only after the previous mask of that slot was harvested, at most three
\* filters are in flight, and a slot's result is not overwritten before it
\* was read.
C19_SlotReusedAfterHarvest ==
    mpc # "idle" =>
      /\ \A b \in Slots : FiltersInFlight(b) <= 1
      /\ \A k \in Masks :
            (k >= numBuffers /\ issued[k] # NotIssued) =>
                outputImages[k - numBuffers] # EmptyOutput
      /\ \A k \in Masks :
            (k >= numBuffers /\ tripleDst[IssueSlot(k)] = k) =>
                outputImages[k - numBuffers] # EmptyOutput

\* C20: the pinned source buffer of a call is released only after the filter
\* work of that call has completed, and it is released once the work and the
\* callback of that call have run.
C20_SourceReleasedOnce ==
    mpc # "idle" =>
      \A k \in Masks :
        /\ src_img[k] = "freed" => ~CallPending(k, {"filter"})
        /\ (issued[k] # NotIssued /\ ~CallPending(k, {"filter", "callback"})) =>
              src_img[k] = "freed"

\* glow_blow has run on a non-empty CV_8UC1 mask.
GlowBlowRan ==
    /\ cpc \in {"mix_images", "done"}
    /\ ~IsEmpty(args.mask)
    /\ args.mask.type = "CV_8UC1"

MixBlended ==
    /\ cpc = "done"
    /\ ~IsEmpty(args.src_img) /\ ~IsEmpty(dst_rgba) /\ ~IsEmpty(args.mipmap_result)
    /\ args.src_img.size = dst_rgba.size
    /\ args.src_img.size = args.mipmap_result.size

\* C22: with intensity 0 every colour channel of every pixel of the composite
\* equals that channel of the frame.
C22_ZeroIntensityKeepsFrame ==
    (MixBlended /\ args.param_KeyScale = 0) =>
      \A p \in 1..Area(args.src_img.size) :
        \A k \in 1..3 : output_image.data[p][k] = args.src_img.data[p][k]

\* C23: the weight used for a pixel is min(255, (luma * intensity) >> 8), and
\* the weight is non-decreasing in luma.
ClampedWeight(luma, keyScale) == Min(255, (luma * keyScale) \div 256)
C23_WeightIsClamped ==
    MixBlended =>
      /\ \A p \in 1..Area(args.src_img.size) :
            alpha[p] = ClampedWeight(BGR2GRAY(args.mipmap_result.data[p]),
                                     args.param_KeyScale)
      /\ \A p, q \in 1..Area(args.src_img.size) :
            BGR2GRAY(args.mipmap_result.data[p]) <= BGR2GRAY(args.mipmap_result.data[q])
              => alpha[p] <= alpha[q]

\* mix_images is called with an empty input or with inputs of different sizes.
MixRejects ==
    \/ IsEmpty(args.src_img) \/ IsEmpty(dst_rgba) \/ IsEmpty(args.mipmap_result)
    \/ args.src_img.size # dst_rgba.size
    \/ args.src_img.size # args.mipmap_result.size

\* C24: a call of mix_images with an empty input or with inputs of different
\* sizes leaves output_image as it was and blends no pixel.
C24_MismatchLeavesOutput ==
    [][(cpc = "mix_images" /\ MixRejects) =>
         (output_image' = output_image /\ alpha' = <<>>)]_vars

\* mix_images has returned from a call with three non-empty images of which
\* the frame and the mipmap result differ in size; the earlier output stands.
C24_Witness ==
    /\ cpc = "done"
    /\ ~IsEmpty(args.src_img) /\ ~IsEmpty(dst_rgba) /\ ~IsEmpty(args.mipmap_result)
    /\ args.src_img.size = dst_rgba.size
    /\ args.src_img.size # args.mipmap_result.size
    /\ output_image = StaleImage

\* The names in a sequence of released buffers.
Range(seq) == {seq[j] : j \in 1..Len(seq)}

\* C25: when a per-image set-up step of a single-batch worker has failed,
\* every buffer the image held was released exactly once, none of the image's
\* buffers stays allocated, the image has no result, and the worker stands at
\* its next image (or after its loop when there is none).
C25_FailedAllocUnwinds ==
    fn \in SingleFns =>
      \A t \in Workers :
        worker[t].failPoint # "none" =>
          /\ Range(worker[t].freedOnFail) = AllocatedBefore(worker[t].failPoint)
          /\ Len(worker[t].freedOnFail) = Cardinality(Range(worker[t].freedOnFail))
          /\ worker[t].live \cap ImageBuffers(worker[t].failImg) = {}
          /\ results[worker[t].failImg] = EmptyMat
          /\ worker[t].img_idx > worker[t].failImg
          /\ worker[t].pc = NextImagePc(t, worker[t].failImg)

\* The argmax buffer of an image could not be allocated after the worker had
\* stored the mask of the image before it, and the worker stands at the
\* allocations of the image after it.
C25_Witness ==
    /\ fn \in SingleFns
    /\ \E t \in Workers :
          /\ worker[t].failPoint = "d_argmax_output"
          /\ worker[t].failImg > StartIdx(t)
          /\ results[worker[t].failImg - 1] = ArgmaxMask(worker[t].failImg - 1)
          /\ worker[t].pc = "alloc"
          /\ worker[t].img_idx = worker[t].failImg + 1

\* A segmentation call of this run returned masks left empty by a thread
\* whose execution context could not be created.
ContextFailureSeen ==
    \/ \E k \in 1..2 : \E j \in DOMAIN segFuture[k].masks : segFuture[k].masks[j] = Empty
    \/ \E j \in DOMAIN grayscale_masks : grayscale_masks[j] = Empty

\* C26: once an execution context could not be created in a worker of a
\* segmentation call, the run composites and writes no further frame.
C26_ContextFailureAborts ==
    [][(entry \in VideoEntries /\ ContextFailureSeen) => written' = written]_vars

\* C27: no member function is ever invoked on a null engine, and while the
\* engine is null no execution context has been attempted and the function
\* does not go on to its inference steps.
C27_NullEngineNeverUsed ==
    spc # "idle" =>
      /\ nullEngineCalls = {}
      /\ sengine = "null" => (scontext = "none" /\ spc # "run")

\* C28: in the single-batch entry, a pass of the final loop over an image
\* whose inference gave no mask, and at which no quit key is read, writes
\* exactly one frame, composited with a blank mask or blank itself, and the
\* loop goes on.
C28_FailedInferenceStillWrites ==
    [][(/\ entry = "single"
        /\ pc = "emit"
        /\ i < Len(grayscale_masks)
        /\ grayscale_masks[i + 1] = Empty
        /\ pc' # "cleanup"
        /\ <<pc, i, written>>' # <<pc, i, written>>) =>
           (/\ Len(written') = Len(written) + 1
            /\ SubSeq(written', 1, Len(written)) = written
            /\ written'[Len(written')].kind = "blend" =>
                  written'[Len(written')].mask = BlankMask
            /\ i' = i + 1
            /\ pc' \in {"emit", "read"})]_vars

\* The run has ended without a quit key, a frame composited with a substituted
\* blank mask was written, and every frame of every batch reached the sink.
C28_Witness ==
    /\ entry = "single"
    /\ pc = "return"
    /\ ~quitSeen
    /\ \E j \in 1..Len(written) : written[j].kind = "blend" /\ written[j].mask = BlankMask
    /\ Len(written) = NUM_PARALLEL_STREAMS * ((nFrames + NUM_PARALLEL_STREAMS - 1) \div NUM_PARALLEL_STREAMS)
    /\ nFrames > NUM_PARALLEL_STREAMS

\* C29: when the preloaded single-batch function has returned, its result has
\* one entry per input, and entry i is the mask computed from input i or an
\* empty image.
C29_EntryIsOwnMaskOrEmpty ==
    (fn = "single_batch_parallel_preloaded" /\ mainpc = "returned") =>
      /\ DOMAIN results = 0..(num_images - 1)
      /\ \A img \in Images : results[img] \in {ArgmaxMask(img), EmptyMat}

\* C30: in a run of the single-batch entry the engine deserialized before the
\* loop is live during every call of the preloaded function and between the
\* calls, changes state only once, when the caller destroys it after the last
\* call, and whenever the preloaded function has returned no context created
\* from the engine is alive.
C30_EngineLifecycle ==
    /\ [](fn = "single_batch_parallel_preloaded" =>
            /\ mainpc \in {"joining", "returned"} => engine = "live"
            /\ mainpc \in {"returned", "cleaned"} =>
                  \A t \in Workers : worker[t].context # "live"
            /\ mainpc = "cleaned" => engine = "destroyed")
    /\ [][(fn = "single_batch_parallel_preloaded" /\ engine' # engine) =>
            (/\ engine = "live" /\ engine' = "destroyed"
             /\ mainpc = "returned" /\ mainpc' = "cleaned")]_vars

\* The caller has destroyed the engine after a second call in which a worker
\* created and destroyed a context and stored a mask.
C30_Witness ==
    /\ fn = "single_batch_parallel_preloaded"
    /\ mainpc = "cleaned"
    /\ batch_count = 1
    /\ engine = "destroyed"
    /\ \E t \in Workers : worker[t].context = "destroyed"
    /\ \E img \in Images : results[img] = ArgmaxMask(img)


\* C31 -- the post-processing reduce: every pixel of the mask is the argmax
\* over the classes of the output tensor multiplied by floor(255/numClasses),
\* numClasses being the class dimension of the tensor, and reducing the same
\* tensor a second time yields the same mask.
C31_ReduceIsScaledArgmax ==
    rpc \in {"reduced", "again"} =>
        /\ \A p \in 1..Len(outputTensor) :
              imagePost[p] = TorchMaxIndex(outputTensor[p]) * (255 \div outputDims)
        /\ rpc = "again" => imagePost = firstPost

\* C32 -- glow_effect_video / glow_effect_video_graph: whenever a sub-batch is
\* drained, inside the loop or after it, every index 4*(sub-1)+i used on
\* original_frames is below original_frames.size(); the drain after the loop
\* never runs against the vector cleared by the last, failed read.
C32_DrainIndexInRange ==
    (entry \in VideoEntries /\ pc \in {"emit", "crashed"}) =>
        Len(original_frames) >= SubBatch * sub

\* C33 -- single-batch entry points: every write of a worker thread to a
\* container shared with the other workers (results, and the statistics
\* vectors, graph_usage among them) is made by a thread that holds resultMutex,
\* and no two workers are ever both about to write the same container.
C33_SharedWritesUnderMutex ==
    /\ [][(fn \in SingleFns /\ batch_count' = batch_count /\ graph_usage' # graph_usage) =>
            (\E t \in resultMutex : worker'[t] # worker[t])]_vars
    /\ [](fn \in SingleFns =>
            Cardinality({t \in Workers : worker[t].pc = "capture"}) <= 1)

\* C34 -- mul_concurrent / mul_concurrent_graph: a worker thread that has
\* returned, by whatever path (empty sub-range, failed enqueue, normal
\* completion), has destroyed every stream it created and freed every pinned
\* and device buffer it allocated.
C34_WorkerReleasesAll ==
    fn \in FixedBatchFns =>
        \A t \in Workers :
            worker[t].pc = "finished" =>
                (worker[t].streams # "live" /\ worker[t].live = {})

\* C35 -- triple_buffered_mipmap_pipeline: when the pinned buffers have been
\* freed and the streams and events destroyed, every filter operation the
\* pipeline issued has completed, so that none can still write a freed buffer.
C35_ReleaseAfterFilters ==
    mpc = "returned" => \A b \in Slots : FiltersInFlight(b) = 0

\* C36 -- the concurrent inference entry points: when the function has
\* returned its results, and when the engine has been destroyed, every worker
\* thread has terminated; after the return no worker takes a step and the
\* results vector does not change.
C36_JoinBeforeReturn ==
    /\ []((fn # "none" /\ (mainpc \in {"returned", "cleaned"} \/ engine # "live")) =>
            \A t \in Workers : worker[t].pc = "finished")
    /\ [][(fn # "none" /\ mainpc \in {"returned", "cleaned"} /\ batch_count' = batch_count) =>
            (worker' = worker /\ results' = results)]_vars

\* A call with two workers has returned and destroyed its engine, each worker
\* having stored a mask.
C36_Witness ==
    /\ fn \in FixedBatchFns \cup {"single_batch_parallel"}
    /\ mainpc = "returned"
    /\ engine = "destroyed"
    /\ num_streams = 2
    /\ \A t \in Workers :
          /\ worker[t].pc = "finished"
          /\ worker[t].context = "destroyed"
          /\ \E img \in Images : StartIdx(t) <= img /\ img < EndIdx(t)
                                  /\ results[img] = ArgmaxMask(img)

C38_ZeroDeltaMatchesExactly ==
    (GlowBlowRan /\ args.Delta = 0) =>
        \A p \in 1..Area(args.mask.size) :
            (dst_rgba.data[p] = overlay_color) <=> (args.mask.data[p] = args.param_KeyLevel)

====
